---------------------------- MODULE Spec2Model ----------------------------
(***************************************************************************)
(* A model of the ACARS dispatch-and-decoding engine: the parser registry, *)
(* the lazily compiled pattern compilers of the decoders, and the Label 15 *)
(* (FST) and Label 80 decoders.                                            *)
(*                                                                         *)
(* Text is a sequence of one-character strings, so that slicing, trimming  *)
(* and digit parsing are computed the way the Go code computes them.       *)
(* Coordinates (float64 degrees in the code) are exact rationals, held as  *)
(* an integer count of 1/CoordScale degree.                                *)
(***************************************************************************)
EXTENDS Integers, Sequences, FiniteSets, TLC

VARIABLES
    \* ---- registry and dispatch ----
    priority,       \* parser name -> Priority()
    byLabel,        \* label -> sequence of parser names
    contentBased,   \* sequence of parser names
    catchAll,       \* the envelope parser's name, or "" before it registers
    registered,     \* names registered so far
    regLog,         \* list key -> names of that list in registration order
    phase,          \* "init" | "idle" | "pending" | "done"
    msg,            \* the Message supplied to the dispatch
    msgAfter,       \* the same Message once the dispatch has returned
    mode,           \* "first" | "all"
    calls,          \* the QuickCheck / Parse invocations of this dispatch, in order
    results,        \* the Results of this dispatch, in order
    compiled,       \* decoder -> "none" | "ok" | "err": its grokOnce / grokErr
    compileOutcome, \* decoder -> "ok" | "err": what Compile() yields for its Formats
    memo,           \* the first dispatch_all of a probe Message, and its Results
    \* ---- one decoder's lazily initialised compiler, under concurrent Parse ----
    pc,             \* goroutine -> where it is inside Parse / getCompiler / Once.Do
    done,           \* grokOnce's done flag
    mu,             \* grokOnce's mutex: the goroutine holding it, or 0
    grokCompiler,   \* "nil" | "new" | "ready" | "failed"
    grokErr,        \* "nil" | "err"
    compileCount,   \* how many times NewCompiler/Compile ran
    ret,            \* goroutine -> what its last getCompiler returned
    parsed,         \* goroutine -> what its last Parse returned
    nCalls,         \* goroutine -> Parse calls it has started
    arg,            \* goroutine -> the Message of its current Parse
    onceOutcome,    \* what Compile() yields for the decoder's Formats
    decoder,        \* the decoder whose Parse the goroutines call
    \* ---- the Label 80 decoder on one input ----
    l80Msg, l80Matches, l80Out,
    \* ---- the Label 15 decoder on one input ----
    fstMsg, fstOut,
    \* ---- parseCoord on one captured digit group ----
    coordIn, coordOut,
    \* ---- the compiler's Parse over the Label 16 formats on one input ----
    l16In, l16Out

regVars == <<priority, byLabel, contentBased, catchAll, registered, regLog>>
dispVars == <<phase, msg, msgAfter, mode, calls, results, compiled, compileOutcome,
              memo>>
onceVars == <<pc, done, mu, grokCompiler, grokErr, compileCount, ret, parsed, nCalls,
              arg, onceOutcome, decoder>>
l80Vars == <<l80Msg, l80Matches, l80Out>>
fstVars == <<fstMsg, fstOut>>
coordVars == <<coordIn, coordOut>>
l16Vars == <<l16In, l16Out>>
vars == <<regVars, dispVars, onceVars, l80Vars, fstVars, coordVars, l16Vars>>

-----------------------------------------------------------------------------
(* Strings (package strings, strconv)                                      *)

Digit == {"0", "1", "2", "3", "4", "5", "6", "7", "8", "9"}

Upper == {"A", "B", "C", "D", "E", "F", "G", "H", "I", "J", "K", "L", "M",
          "N", "O", "P", "Q", "R", "S", "T", "U", "V", "W", "X", "Y", "Z"}

Space == {" ", "\t", "\n", "\r"}

DigitVal(c) ==
    CASE c = "0" -> 0 [] c = "1" -> 1 [] c = "2" -> 2 [] c = "3" -> 3
      [] c = "4" -> 4 [] c = "5" -> 5 [] c = "6" -> 6 [] c = "7" -> 7
      [] c = "8" -> 8 [] c = "9" -> 9

SetMin(S) == CHOOSE x \in S : \A y \in S : x <= y

\* s[a:b] of Go: 0-based, half-open.
Slice(s, a, b) == SubSeq(s, a + 1, b)

RECURSIVE TrimLeft(_)
TrimLeft(s) == IF s # <<>> /\ Head(s) \in Space THEN TrimLeft(Tail(s)) ELSE s

RECURSIVE TrimRight(_)
TrimRight(s) ==
    IF s # <<>> /\ s[Len(s)] \in Space THEN TrimRight(SubSeq(s, 1, Len(s) - 1)) ELSE s

TrimSpace(s) == TrimRight(TrimLeft(s))

\* p occurs in s at the 1-based position i.
OccursAt(s, p, i) ==
    /\ i >= 1
    /\ i + Len(p) - 1 <= Len(s)
    /\ \A k \in 1..Len(p) : s[i + k - 1] = p[k]

HasPrefix(s, p) == OccursAt(s, p, 1)

\* strings.Index: the 0-based index of the first occurrence, or -1.
Index(s, p) ==
    LET I == {i \in 1..(Len(s) + 1) : OccursAt(s, p, i)}
    IN  IF I = {} THEN -1 ELSE SetMin(I) - 1

Contains(s, p) == Index(s, p) >= 0

TrimPrefix(s, p) == IF HasPrefix(s, p) THEN SubSeq(s, Len(p) + 1, Len(s)) ELSE s

\* strings.Fields: the maximal runs of non-space characters.
RECURSIVE FieldsFrom(_, _, _)
FieldsFrom(s, i, cur) ==
    IF i > Len(s)
    THEN IF cur = <<>> THEN <<>> ELSE <<cur>>
    ELSE IF s[i] \in Space
         THEN IF cur = <<>> THEN FieldsFrom(s, i + 1, <<>>)
              ELSE <<cur>> \o FieldsFrom(s, i + 1, <<>>)
         ELSE FieldsFrom(s, i + 1, Append(cur, s[i]))

Fields(s) == FieldsFrom(s, 1, <<>>)

AllDigits(s) == \A k \in 1..Len(s) : s[k] \in Digit

RECURSIVE DigitsVal(_)
DigitsVal(s) ==
    IF s = <<>> THEN 0 ELSE 10 * DigitsVal(SubSeq(s, 1, Len(s) - 1)) + DigitVal(s[Len(s)])

RECURSIVE StripZeros(_)
StripZeros(s) == IF s # <<>> /\ Head(s) = "0" THEN StripZeros(Tail(s)) ELSE s

AtoiBody(s, body) ==
    IF body = <<>> \/ ~AllDigits(body) \/ Len(StripZeros(body)) >= 20
    THEN [err |-> TRUE, val |-> 0]
    ELSE [err |-> FALSE,
          val |-> IF Head(s) = "-"
                  THEN 0 - DigitsVal(StripZeros(body))
                  ELSE DigitsVal(StripZeros(body))]

\* strconv.Atoi: an optional sign and one or more decimal digits; anything
\* else, or a value outside int64 (20 significant digits or more), is an
\* error.  Values of 10 to 19 significant digits are beyond the 32-bit
\* integers of TLC and do not occur among the inputs of the model.
Atoi(s) == AtoiBody(s, IF s # <<>> /\ Head(s) \in {"+", "-"} THEN Tail(s) ELSE s)

-----------------------------------------------------------------------------
(* Pattern compiler (package patterns) as the decoders use it              *)

NoMatch == [FormatName |-> ""]

\* {ICAO}: four letters.  {LAT_DIR}: N or S.  {LON_DIR}: E or W.
IsICAO(s) == Len(s) = 4 /\ \A k \in 1..4 : s[k] \in Upper
LatDir == {"N", "S"}
LonDir == {"E", "W"}

\* The Label 15 formats, in declaration order.  The three patterns differ
\* only in the widths of the latitude and longitude digit groups.
Formats7First ==
    << [Name |-> "fst_7digit_lon", latW |-> 6, lonW |-> 7],
       [Name |-> "fst_6digit",     latW |-> 6, lonW |-> 6],
       [Name |-> "fst_5digit_lon", latW |-> 5, lonW |-> 5] >>

\* The same formats with the narrowest longitude first.
Formats5First == <<Formats7First[3], Formats7First[2], Formats7First[1]>>

\* The same formats with the 6-digit longitude first.
Formats6First == <<Formats7First[2], Formats7First[1], Formats7First[3]>>

FstFormats == Formats7First

\* The pattern FST(seq:\d{2})(origin:ICAO)(dest:ICAO)(lat_dir)(lat:\d{latW})
\* (lon_dir)(lon:\d{lonW})(rest:.+) matches text from the 1-based position i.
\* "." does not match a newline; ".+" is greedy, so rest runs to the end of
\* the line.
FstMatchesAt(f, text, i) ==
    LET o == i + 5              \* origin starts here
        a == i + 13             \* lat_dir
        b == a + 1 + f.latW     \* lon_dir
        r == b + 1 + f.lonW     \* rest
    IN  /\ OccursAt(text, <<"F", "S", "T">>, i)
        /\ r <= Len(text)
        /\ AllDigits(SubSeq(text, i + 3, i + 4))
        /\ IsICAO(SubSeq(text, o, o + 3))
        /\ IsICAO(SubSeq(text, o + 4, o + 7))
        /\ text[a] \in LatDir
        /\ AllDigits(SubSeq(text, a + 1, b - 1))
        /\ text[b] \in LonDir
        /\ AllDigits(SubSeq(text, b + 1, r - 1))
        /\ text[r] # "\n"

RECURSIVE LineEnd(_, _)
LineEnd(text, i) ==
    IF i < Len(text) /\ text[i + 1] # "\n" THEN LineEnd(text, i + 1) ELSE i

FstCaptures(f, text, i) ==
    LET o == i + 5
        a == i + 13
        b == a + 1 + f.latW
        r == b + 1 + f.lonW
    IN  [seq     |-> SubSeq(text, i + 3, i + 4),
         origin  |-> SubSeq(text, o, o + 3),
         dest    |-> SubSeq(text, o + 4, o + 7),
         lat_dir |-> text[a],
         lat     |-> SubSeq(text, a + 1, b - 1),
         lon_dir |-> text[b],
         lon     |-> SubSeq(text, b + 1, r - 1),
         rest    |-> SubSeq(text, r, LineEnd(text, r))]

\* One format against the text: the leftmost match, or NoMatch.
FstMatchFormat(f, text) ==
    LET I == {i \in 1..Len(text) : FstMatchesAt(f, text, i)}
    IN  IF I = {} THEN NoMatch
        ELSE [FormatName |-> f.Name, Captures |-> FstCaptures(f, text, SetMin(I))]

\* Compiler.Parse: the first format, in declaration order, that matches.
RECURSIVE CompilerParseFrom(_, _, _)
CompilerParseFrom(formats, k, text) ==
    IF k > Len(formats) THEN NoMatch
    ELSE LET m == FstMatchFormat(formats[k], text)
         IN  IF m # NoMatch THEN m ELSE CompilerParseFrom(formats, k + 1, text)

CompilerParse(text) == CompilerParseFrom(FstFormats, 1, text)

-----------------------------------------------------------------------------
(* Label 15 decoder (package fst)                                          *)

\* Coordinates are counted in 1/CoordScale degree: 1/6000 (a hundredth of a
\* minute) and 1/10000 (the decimal forms) are both whole multiples of it.
CoordScale == 30000

Nil == [type |-> "nil"]

FstLabelsWide == {"15", "80"}

FstLabels == {"15"}
FstPriority == 100

FstQuickCheck(text) ==
    \/ HasPrefix(TrimSpace(text), <<"F", "S", "T">>)
    \/ Contains(text, <<"F", "S", "T", "0", "1">>)
    \/ Contains(text, <<"F", "S", "T", "0", "2">>)

\* Length 5 without the final test of the minutes against 60.
Coord5AnyMinutes(deg, mw, mt) ==
    IF deg.err \/ mw.err \/ mt.err THEN 0
    ELSE deg.val * CoordScale + (mw.val * 100 + mt.val * 10) * 5

\* parseCoord, length 5: DDMMD.  deg, mw, mt are Atoi of the three groups.
Coord5(deg, mw, mt) ==
    IF deg.err \/ mw.err \/ mt.err THEN 0
    ELSE IF mw.val * 100 + mt.val * 10 >= 6000 THEN 0
    ELSE deg.val * CoordScale + (mw.val * 100 + mt.val * 10) * 5

ParseCoord5(s) == Coord5(Atoi(Slice(s, 0, 2)), Atoi(Slice(s, 2, 4)), Atoi(Slice(s, 4, 5)))

\* Length 6 without the decimal reading: minutes of 60 or more are invalid.
Coord6NoDecimal(d2, d3, mw2, mh2, mw3, mt3, dec) ==
    IF d2.err \/ mw2.err \/ mh2.err \/ d2.val = 0 \/ mw2.val * 100 + mh2.val >= 6000
    THEN 0
    ELSE d2.val * CoordScale + (mw2.val * 100 + mh2.val) * 5

\* parseCoord, length 6: DDMMTT, DD.DDDD when the minutes are 60 or more,
\* DDDMMD when no degrees were found.  The arguments are Atoi of s[0:2],
\* s[0:3], s[2:4], s[4:6], s[3:5], s[5:6] and s[2:6].
Coord6(d2, d3, mw2, mh2, mw3, mt3, dec) ==
    LET ok2 == ~d2.err /\ ~mw2.err /\ ~mh2.err
        minTest2 == mw2.val * 100 + mh2.val
        minTest3 == (mw3.val * 10 + mt3.val) * 10
        isDDMMTT == ok2 /\ d2.val <= 180 /\ minTest2 < 6000
        isDecimal == ok2 /\ ~isDDMMTT /\ d2.val <= 90 /\ minTest2 >= 6000 /\ ~dec.err
        isDDDMMD == /\ ~isDDMMTT \/ d2.val = 0
                    /\ ~d3.err /\ d3.val > 90 /\ d3.val <= 180
                    /\ ~mw3.err /\ ~mt3.err /\ minTest3 < 6000
    IN  IF isDecimal THEN d2.val * CoordScale + dec.val * 3
        ELSE IF isDDDMMD THEN d3.val * CoordScale + minTest3 * 5
        ELSE IF ~isDDMMTT \/ d2.val = 0 THEN 0
        ELSE d2.val * CoordScale + minTest2 * 5

ParseCoord6(s) ==
    Coord6(Atoi(Slice(s, 0, 2)), Atoi(Slice(s, 0, 3)), Atoi(Slice(s, 2, 4)),
           Atoi(Slice(s, 4, 6)), Atoi(Slice(s, 3, 5)), Atoi(Slice(s, 5, 6)),
           Atoi(Slice(s, 2, 6)))

\* Length 7 read as DDDMMTT, with the minutes converted and tested.
Coord7Minutes(deg, dec) ==
    IF deg.err \/ deg.val > 180 THEN 0
    ELSE IF dec.err \/ dec.val >= 6000 THEN 0
    ELSE deg.val * CoordScale + dec.val * 5

\* parseCoord, length 7: DDD and four decimals of a degree.
Coord7(deg, dec) ==
    IF deg.err \/ deg.val > 180 THEN 0
    ELSE IF dec.err THEN 0
    ELSE deg.val * CoordScale + dec.val * 3

ParseCoord7(s) == Coord7(Atoi(Slice(s, 0, 3)), Atoi(Slice(s, 3, 7)))

parseCoord(s) ==
    IF Len(s) < 5 THEN 0
    ELSE IF Len(s) = 5 THEN ParseCoord5(s)
    ELSE IF Len(s) = 6 THEN ParseCoord6(s)
    ELSE IF Len(s) = 7 THEN ParseCoord7(s)
    ELSE 0

\* tempPattern ^([MP])(\d{2,3})C?$ : the digits of a matching token, or <<>>.
TempDigits(tok) ==
    LET n == Len(tok)
        body == IF n >= 1 /\ tok[n] = "C" THEN SubSeq(tok, 2, n - 1) ELSE SubSeq(tok, 2, n)
    IN  IF n >= 1 /\ tok[1] \in {"M", "P"} /\ Len(body) \in {2, 3} /\ AllDigits(body)
        THEN body ELSE <<>>

\* parseFields, first field: the flight level (fl: Atoi of the field).
FlightLevelSet(fl, r) ==
    IF ~fl.err /\ fl.val >= 0 /\ fl.val <= 600 THEN [r EXCEPT !.FlightLevel = fl.val] ELSE r

FieldsFlightLevel(parts, r) ==
    IF Len(parts) >= 1 THEN FlightLevelSet(Atoi(parts[1]), r) ELSE r

\* A seven-character speed token above 1000000: IAS and km/h (ias, kmh: Atoi
\* of its first three and last four characters).
SpeedIasKmh(ias, kmh, r) ==
    IF ias.err THEN r
    ELSE IF kmh.err THEN [r EXCEPT !.IAS = ias.val]
    ELSE [r EXCEPT !.IAS = ias.val, !.GroundSpeed = kmh.val,
                   !.SpeedUnit = "kmh", !.SpeedType = "IAS+KMH"]

\* A token above 1000 of more than four characters: IAS only.
SpeedIasOnly(ias, r) ==
    IF ias.err THEN r ELSE [r EXCEPT !.IAS = ias.val, !.SpeedType = "IAS"]

\* The following field taken for knots whatever its value.
SpeedIasNextKnots(speed, nx, r) ==
    IF ~nx.err /\ nx.val >= 100 /\ nx.val < 1000
    THEN [r EXCEPT !.IAS = speed, !.GroundSpeed = nx.val, !.SpeedUnit = "knots",
                   !.SpeedType = "IAS+GS"]
    ELSE [r EXCEPT !.IAS = speed, !.SpeedType = "IAS"]

\* A speed of 100 to 349 is the IAS; a following field of 100 to 999 (nx: Atoi
\* of it, an error when there is none) is the ground speed.
SpeedIasNext(speed, nx, r) ==
    IF ~nx.err /\ nx.val >= 100 /\ nx.val < 1000
    THEN IF nx.val >= 700
         THEN [r EXCEPT !.IAS = speed, !.GroundSpeed = nx.val, !.SpeedUnit = "kmh",
                        !.SpeedType = "IAS+KMH"]
         ELSE [r EXCEPT !.IAS = speed, !.GroundSpeed = nx.val, !.SpeedUnit = "knots",
                        !.SpeedType = "IAS+GS"]
    ELSE [r EXCEPT !.IAS = speed, !.SpeedType = "IAS"]

\* The classification by value alone, as it was before the seven-character
\* form was told apart: above 1000 the first three characters are the IAS.
SpeedClassifyByValue(parts, speedStr, sp, r) ==
    IF sp.err \/ sp.val <= 0 THEN r
    ELSE IF sp.val > 1000 /\ Len(speedStr) > 4
    THEN SpeedIasOnly(Atoi(Slice(speedStr, 0, 3)), r)
    ELSE IF sp.val >= 700 /\ sp.val <= 1000
    THEN [r EXCEPT !.GroundSpeed = sp.val, !.SpeedUnit = "kmh", !.SpeedType = "KMH"]
    ELSE IF sp.val >= 350 /\ sp.val < 700
    THEN [r EXCEPT !.GroundSpeed = sp.val, !.SpeedUnit = "knots", !.SpeedType = "GS"]
    ELSE IF sp.val >= 100 /\ sp.val < 350
    THEN SpeedIasNext(sp.val,
                      IF Len(parts) >= 3 THEN Atoi(parts[3]) ELSE [err |-> TRUE, val |-> 0],
                      r)
    ELSE [r EXCEPT !.GroundSpeed = sp.val, !.SpeedUnit = "knots", !.SpeedType = "GS"]

\* The classification without the branch for tokens above 1000 of more than
\* four characters: they fall through to the ground speed in knots.
SpeedClassifyNoSplit(parts, speedStr, sp, r) ==
    IF sp.err \/ sp.val <= 0 THEN r
    ELSE IF Len(speedStr) = 7 /\ sp.val > 1000000
    THEN SpeedIasKmh(Atoi(Slice(speedStr, 0, 3)), Atoi(Slice(speedStr, 3, 7)), r)
    ELSE IF sp.val >= 700 /\ sp.val <= 1000
    THEN [r EXCEPT !.GroundSpeed = sp.val, !.SpeedUnit = "kmh", !.SpeedType = "KMH"]
    ELSE IF sp.val >= 350 /\ sp.val < 700
    THEN [r EXCEPT !.GroundSpeed = sp.val, !.SpeedUnit = "knots", !.SpeedType = "GS"]
    ELSE IF sp.val >= 100 /\ sp.val < 350
    THEN SpeedIasNext(sp.val,
                      IF Len(parts) >= 3 THEN Atoi(parts[3]) ELSE [err |-> TRUE, val |-> 0],
                      r)
    ELSE [r EXCEPT !.GroundSpeed = sp.val, !.SpeedUnit = "knots", !.SpeedType = "GS"]

\* The speed token speedStr, classified by width and value (sp: Atoi of it).
SpeedClassify(parts, speedStr, sp, r) ==
    IF sp.err \/ sp.val <= 0 THEN r
    ELSE IF Len(speedStr) = 7 /\ sp.val > 1000000
    THEN SpeedIasKmh(Atoi(Slice(speedStr, 0, 3)), Atoi(Slice(speedStr, 3, 7)), r)
    ELSE IF sp.val > 1000 /\ Len(speedStr) > 4
    THEN SpeedIasOnly(Atoi(Slice(speedStr, 0, 3)), r)
    ELSE IF sp.val >= 700 /\ sp.val <= 1000
    THEN [r EXCEPT !.GroundSpeed = sp.val, !.SpeedUnit = "kmh", !.SpeedType = "KMH"]
    ELSE IF sp.val >= 350 /\ sp.val < 700
    THEN [r EXCEPT !.GroundSpeed = sp.val, !.SpeedUnit = "knots", !.SpeedType = "GS"]
    ELSE IF sp.val >= 100 /\ sp.val < 350
    THEN SpeedIasNext(sp.val,
                      IF Len(parts) >= 3 THEN Atoi(parts[3]) ELSE [err |-> TRUE, val |-> 0],
                      r)
    ELSE [r EXCEPT !.GroundSpeed = sp.val, !.SpeedUnit = "knots", !.SpeedType = "GS"]

\* parseFields, second field: the speed token.
FieldsSpeed(parts, r) ==
    IF Len(parts) < 2 THEN r ELSE SpeedClassify(parts, parts[2], Atoi(parts[2]), r)

\* The wind token after the temperature: SSDDD, else SSSDDD.
WindDirMax == 360

\* SSDDD (ws, wd: Atoi of the first two and the next three characters).
Wind5(ws, wd, r) ==
    IF /\ ~ws.err /\ ws.val >= 0 /\ ws.val <= 99
       /\ ~wd.err /\ wd.val >= 0 /\ wd.val <= WindDirMax
    THEN [r EXCEPT !.WindSpeed = ws.val, !.WindDirection = wd.val]
    ELSE r

\* SSSDDD (ws, wd: Atoi of the first three and the next three characters).
Wind6(ws, wd, r) ==
    IF /\ ~ws.err /\ ws.val >= 100 /\ ws.val <= 999
       /\ ~wd.err /\ wd.val >= 0 /\ wd.val <= WindDirMax
    THEN [r EXCEPT !.WindSpeed = ws.val, !.WindDirection = wd.val]
    ELSE r

\* SSSDDD is tried when SSDDD left the wind speed at 0.
WindRetry(windData, r1) ==
    IF r1.WindSpeed = 0 /\ Len(windData) >= 6
    THEN Wind6(Atoi(Slice(windData, 0, 3)), Atoi(Slice(windData, 3, 6)), r1)
    ELSE r1

FieldsWind(windData, r) ==
    IF Len(windData) < 5 THEN r
    ELSE WindRetry(windData,
                   Wind5(Atoi(Slice(windData, 0, 2)), Atoi(Slice(windData, 2, 5)), r))

\* parseFields, the scan from the third field on: the first token matching
\* tempPattern gives the temperature, the token after it the wind.
TempSet(tok, d, r) ==
    [r EXCEPT !.Temperature = IF tok[1] = "M" THEN 0 - Atoi(d).val ELSE Atoi(d).val]

FieldsTempAt(parts, i, d, r) ==
    IF i + 1 <= Len(parts)
    THEN FieldsWind(parts[i + 1], TempSet(parts[i], d, r))
    ELSE TempSet(parts[i], d, r)

\* The scan without its break: every matching token is taken in turn, so
\* the last one wins.
RECURSIVE FieldsTempNoBreak(_, _, _)
FieldsTempNoBreak(parts, i, r) ==
    IF i > Len(parts) THEN r
    ELSE IF TempDigits(parts[i]) = <<>> THEN FieldsTempNoBreak(parts, i + 1, r)
    ELSE FieldsTempNoBreak(parts, i + 1, FieldsTempAt(parts, i, TempDigits(parts[i]), r))

RECURSIVE FieldsTemp(_, _, _)
FieldsTemp(parts, i, r) ==
    IF i > Len(parts) THEN r
    ELSE IF TempDigits(parts[i]) = <<>> THEN FieldsTemp(parts, i + 1, r)
    ELSE FieldsTempAt(parts, i, TempDigits(parts[i]), r)

FieldsAll(parts, r) ==
    FieldsTemp(parts, 3, FieldsSpeed(parts, FieldsFlightLevel(parts, r)))

parseFields(data, r) == FieldsAll(Fields(data), r)

\* The text Parse hands to the compiler: trimmed, and cut to start at the
\* first FST when something precedes it.
FstCut(t, i) == IF i > 0 THEN SubSeq(t, i + 1, Len(t)) ELSE t

FstTrimmed(t) == FstCut(t, Index(t, <<"F", "S", "T">>))

FstText(text) == FstTrimmed(TrimSpace(text))

FstMsgIDZero(m) == 0

FstMsgID(m) == m.ID

\* Parse from the captures on: the Result's fields, then parseFields on the
\* rest of the line.
FstFill(m, c, lat, lon) ==
    LET r0 == [type |-> "fst", MsgID |-> FstMsgID(m), Timestamp |-> m.Timestamp,
               Tail |-> m.Tail, Sequence |-> c.seq, Origin |-> c.origin,
               Destination |-> c.dest,
               Latitude |-> IF c.lat_dir = "S" THEN 0 - lat ELSE lat,
               Longitude |-> IF c.lon_dir = "W" THEN 0 - lon ELSE lon,
               FlightLevel |-> 0, GroundSpeed |-> 0, SpeedUnit |-> "", IAS |-> 0,
               TAS |-> 0, SpeedType |-> "", Temperature |-> 0, WindSpeed |-> 0,
               WindDirection |-> 0, RawData |-> <<>>]
    IN  IF Len(c.rest) > 0
        THEN parseFields(c.rest, [r0 EXCEPT !.RawData = c.rest])
        ELSE r0

\* Parse that gives up when a coordinate does not decode.
FstDecodeStrict(m, match) ==
    IF match = NoMatch THEN Nil
    ELSE IF parseCoord(match.Captures.lat) = 0 \/ parseCoord(match.Captures.lon) = 0
    THEN Nil
    ELSE FstFill(m, match.Captures, parseCoord(match.Captures.lat),
                 parseCoord(match.Captures.lon))

\* Parse from the compiler's answer on: nil when no format matched.
FstDecode(m, match) ==
    IF match = NoMatch THEN Nil
    ELSE FstFill(m, match.Captures, parseCoord(match.Captures.lat),
                 parseCoord(match.Captures.lon))

\* Parser.Parse once the compiler is at hand (compileErr: getCompiler's error).
FstParse(m, compileErr) ==
    IF m.Text = <<>> THEN Nil
    ELSE IF compileErr THEN Nil
    ELSE FstDecode(m, CompilerParse(FstText(m.Text)))

-----------------------------------------------------------------------------
(* Label 80 decoder (package label80)                                      *)

L80Labels == {"80"}
L80Priority == 100

L80QuickCheck(text) == TRUE

\* Go's integer / and %: truncated towards zero.
GoDiv(a, b) == IF a >= 0 THEN a \div b ELSE 0 - ((0 - a) \div b)
GoRem(a, b) == a - b * GoDiv(a, b)

\* airports.GetName: the name on record for the code (a read-only table).
GetName(icao) == [airport |-> icao]
NoName == [airport |-> <<>>]

\* patterns.ParseDecimalCoord: "DD.ddd" and a hemisphere letter to signed
\* degrees, negated for S and W; 0 when the text is no decimal number.
\* Exact for up to four decimals.
RECURSIVE Pow10(_)
Pow10(n) == IF n = 0 THEN 1 ELSE 10 * Pow10(n - 1)

DecimalCoord(ip, fp, dir) ==
    LET v == DigitsVal(ip) * CoordScale + (DigitsVal(fp) * CoordScale) \div Pow10(Len(fp))
    IN  IF ~(/\ AllDigits(ip) /\ AllDigits(fp) /\ Len(ip) + Len(fp) >= 1
             /\ Len(ip) <= 3 /\ Len(fp) <= 4)
        THEN 0
        ELSE IF dir \in {"S", "W"} THEN 0 - v ELSE v

DecimalSplit(s, dot, dir) ==
    IF dot < 0 THEN DecimalCoord(s, <<>>, dir)
    ELSE DecimalCoord(Slice(s, 0, dot), Slice(s, dot + 1, Len(s)), dir)

ParseDecimalCoord(s, dir) == DecimalSplit(s, Index(s, <<".">>), dir)

\* The number of degree digits of a coordinate without a decimal point.
DegDigits(s, dir) == IF dir \in {"E", "W"} THEN (IF Len(s) <= 5 THEN 2 ELSE 3) ELSE 2

WithPoint(s, degDigits) ==
    IF Len(s) > degDigits
    THEN Slice(s, 0, degDigits) \o <<".">> \o Slice(s, degDigits, Len(s))
    ELSE s

Label80CoordTrimmed(s, dir) ==
    IF s = <<>> THEN 0
    ELSE IF Contains(s, <<".">>) THEN ParseDecimalCoord(s, dir)
    ELSE ParseDecimalCoord(WithPoint(s, DegDigits(s, dir)), dir)

parseLabel80Coord(s0, dir) == Label80CoordTrimmed(TrimSpace(s0), dir)

\* ^[A-Z]{2,3}\d{1,4}[A-Z]?$
IsAirlineFlight(s) ==
    \E a \in 2..3 : \E d \in 1..4 : \E z \in 0..1 :
        /\ Len(s) = a + d + z
        /\ \A k \in 1..a : s[k] \in Upper
        /\ \A k \in (a + 1)..(a + d) : s[k] \in Digit
        /\ z = 1 => s[Len(s)] \in Upper

LikelyFlightTrimmed(s) ==
    IF s = <<>> THEN FALSE
    ELSE IF Contains(s, <<"/">>) THEN FALSE
    ELSE IF IsAirlineFlight(s) THEN TRUE
    ELSE Len(s) \in 1..4 /\ AllDigits(s)

isLikelyFlight(s0) == LikelyFlightTrimmed(TrimSpace(s0))

HHMMChecked(s, h, m) ==
    IF h.err \/ m.err \/ h.val < 0 \/ h.val > 23 \/ m.val < 0 \/ m.val > 59
    THEN <<>>
    ELSE Slice(s, 0, 2) \o <<":">> \o Slice(s, 2, 4)

HHMMPadded(s) ==
    IF Len(s) # 4 THEN <<>>
    ELSE HHMMChecked(s, Atoi(Slice(s, 0, 2)), Atoi(Slice(s, 2, 4)))

HHMMTrimmed(s1) ==
    IF s1 = <<>> THEN <<>>
    ELSE HHMMPadded(IF Len(s1) = 3 THEN <<"0">> \o s1 ELSE s1)

formatHHMM(s0) == HHMMTrimmed(TrimSpace(s0))

\* The altitude case: a token of at most three characters with a value in
\* 1..FlMax is a flight level.
FlMax == 500

AltitudeSetRaw(altStr, alt, r) ==
    IF alt.err THEN r ELSE [r EXCEPT !.Altitude = alt.val]

\* The heuristic with every three-digit token taken for a flight level.
AltitudeSetAnyThreeDigits(altStr, alt, r) ==
    IF alt.err THEN r
    ELSE IF Len(altStr) <= 3 /\ alt.val > 0
    THEN [r EXCEPT !.Altitude = alt.val * 100]
    ELSE [r EXCEPT !.Altitude = alt.val]

AltitudeSet(altStr, alt, r) ==
    IF alt.err THEN r
    ELSE IF Len(altStr) <= 3 /\ alt.val > 0 /\ alt.val <= FlMax
    THEN [r EXCEPT !.Altitude = alt.val * 100]
    ELSE [r EXCEPT !.Altitude = alt.val]

AltitudeTrimmed(altStr, r) == AltitudeSet(altStr, Atoi(altStr), r)

L80Altitude(altStr0, r) == AltitudeTrimmed(TrimSpace(altStr0), r)

\* The wind case: the direction modulo 360, the speed in knots and in km/h.
L80WindDir(d) ==
    LET m == GoRem(d, 360)
    IN  IF m < 0 THEN m + 360 ELSE m

L80KmhTruncated(spd) == GoDiv(spd * 1852, 1000)

L80Kmh(spd) == GoDiv(spd * 1852 + 500, 1000)

WindSpeedSet(spd, r1) ==
    IF spd.err THEN r1
    ELSE [r1 EXCEPT !.WindSpeedKts = spd.val, !.WindSpeedKmh = L80Kmh(spd.val)]

WindDirSet(d, r) == IF d.err THEN r ELSE [r EXCEPT !.WindDir = L80WindDir(d.val)]

L80Wind(c, r) == WindSpeedSet(Atoi(c.wspd), WindDirSet(Atoi(c.wdir), r))

\* The header cases.  st is [r: the Result, found: foundHeader].
HeaderFlight(tok, r1) ==
    [r |-> IF isLikelyFlight(tok) THEN [r1 EXCEPT !.FlightNum = tok] ELSE r1,
     found |-> TRUE]

L80Header(c, st) ==
    HeaderFlight(TrimSpace(c.hdr1),
                 [st.r EXCEPT !.MsgType = c.msg_type,
                              !.OriginICAO = c.origin,
                              !.DestICAO = c.dest,
                              !.Tail = TrimPrefix(c.tail, <<".">>),
                              !.OriginName = IF c.origin # <<>> THEN GetName(c.origin) ELSE @,
                              !.DestName = IF c.dest # <<>> THEN GetName(c.dest) ELSE @])

L80AltFormat(c, st) ==
    IF st.found THEN st
    ELSE [r |-> [st.r EXCEPT !.FlightNum = c.flight,
                             !.OriginICAO = c.origin,
                             !.DestICAO = c.dest,
                             !.MsgType = <<"F", "L", "T">>,
                             !.OriginName = IF c.origin # <<>> THEN GetName(c.origin) ELSE @,
                             !.DestName = IF c.dest # <<>> THEN GetName(c.dest) ELSE @],
          found |-> TRUE]

\* An integer field is set when its capture converts.
IntSet(field, v, r) == IF v.err THEN r ELSE [r EXCEPT ![field] = v.val]

ReportTimeSet(t, r) == IF t = <<>> THEN r ELSE [r EXCEPT !.ReportTime = t]

\* One turn of the loop over the matches.
L80Case(match, st) ==
    LET c == match.Captures
        f == match.FormatName
        r == st.r
    IN  CASE f = "header_format" -> L80Header(c, st)
          [] f = "alt_format" -> L80AltFormat(c, st)
          [] f = "position" ->
                [st EXCEPT !.r = [r EXCEPT
                    !.Latitude = parseLabel80Coord(c.lat, c.lat_dir),
                    !.Longitude = parseLabel80Coord(c.lon, c.lon_dir)]]
          [] f = "altitude" -> [st EXCEPT !.r = L80Altitude(c.altitude, r)]
          [] f = "mach" -> [st EXCEPT !.r = [r EXCEPT !.Mach = c.mach]]
          [] f = "tas" ->
                [st EXCEPT !.r = IntSet("TAS", Atoi(c.tas), r)]
          [] f = "fob" ->
                [st EXCEPT !.r = IntSet("FuelOnBoard", Atoi(c.fob), r)]
          [] f = "eta" -> [st EXCEPT !.r = [r EXCEPT !.ETA = c.eta]]
          [] f = "tme" ->
                [st EXCEPT !.r = ReportTimeSet(formatHHMM(c.tme), r)]
          [] f = "wind" -> [st EXCEPT !.r = L80Wind(c, r)]
          [] f = "oat" ->
                [st EXCEPT !.r = IntSet("OATC", Atoi(c.oat), r)]
          [] f = "out_time" -> [st EXCEPT !.r = [r EXCEPT !.OutTime = c.out]]
          [] f = "off_time" -> [st EXCEPT !.r = [r EXCEPT !.OffTime = c.off]]
          [] f = "on_time" -> [st EXCEPT !.r = [r EXCEPT !.OnTime = c.on]]
          [] f = "in_time" -> [st EXCEPT !.r = [r EXCEPT !.InTime = c.in]]
          [] OTHER -> st

RECURSIVE L80Loop(_, _, _)
L80Loop(matches, k, st) ==
    IF k > Len(matches) THEN st ELSE L80Loop(matches, k + 1, L80Case(matches[k], st))

L80MsgID(m) == m.ID

L80NewResult(m) ==
    [type |-> "position", MsgID |-> L80MsgID(m), Timestamp |-> m.Timestamp,
     Tail |-> m.Tail, MsgType |-> <<>>, FlightNum |-> <<>>, OriginICAO |-> <<>>,
     OriginName |-> NoName, DestICAO |-> <<>>, DestName |-> NoName, Latitude |-> 0,
     Longitude |-> 0, Altitude |-> 0, Mach |-> <<>>, TAS |-> 0, FuelOnBoard |-> 0,
     ETA |-> <<>>, ReportTime |-> <<>>, WindDir |-> 0, WindSpeedKts |-> 0,
     WindSpeedKmh |-> 0, OATC |-> 0, OutTime |-> <<>>, OffTime |-> <<>>,
     OnTime |-> <<>>, InTime |-> <<>>]

L80ParseAlways(m, compileErr, matches) ==
    IF m.Text = <<>> THEN Nil
    ELSE IF compileErr THEN Nil
    ELSE L80Loop(matches, 1, [r |-> L80NewResult(m), found |-> FALSE]).r

\* Parse without its two guards: the Result built at the start is returned
\* whatever the text and the matches are.
L80ParseNoGuards(m, compileErr, matches) ==
    IF compileErr THEN Nil
    ELSE L80Loop(matches, 1, [r |-> L80NewResult(m), found |-> FALSE]).r

\* Parser.Parse once the compiler is at hand; matches is what
\* compiler.ParseAll returns for the trimmed text.
L80Parse(m, compileErr, matches) ==
    IF m.Text = <<>> THEN Nil
    ELSE IF compileErr THEN Nil
    ELSE LET st == L80Loop(matches, 1, [r |-> L80NewResult(m), found |-> FALSE])
         IN  IF ~st.found THEN Nil ELSE st.r

\* compiler.ParseAll for the Label 80 formats, as far as dispatch needs it:
\* every format that matches, in declaration order.  The header is a message
\* type, a header token, ORIG/DEST and a tail starting with a dot; the
\* altitude and the wind are the tokens after /ALT and /WND.
L80HeaderAt(tk, i) ==
    /\ i + 3 <= Len(tk)
    /\ tk[i] # <<>> /\ \A k \in 1..Len(tk[i]) : tk[i][k] \in Upper
    /\ Len(tk[i + 2]) = 9 /\ tk[i + 2][5] = "/"
    /\ IsICAO(SubSeq(tk[i + 2], 1, 4)) /\ IsICAO(SubSeq(tk[i + 2], 6, 9))
    /\ Len(tk[i + 3]) >= 2 /\ tk[i + 3][1] = "."

L80TagAt(tk, tag, i) == i + 1 <= Len(tk) /\ tk[i] = tag

L80ParseAll(text) ==
    LET tk == Fields(text)
        H  == {i \in 1..Len(tk) : L80HeaderAt(tk, i)}
        A  == {i \in 1..Len(tk) : L80TagAt(tk, <<"/", "A", "L", "T">>, i)}
        W  == {i \in 1..Len(tk) : L80TagAt(tk, <<"/", "W", "N", "D">>, i)
                                   /\ Len(tk[i + 1]) = 6}
        h  == SetMin(H)
        a  == SetMin(A)
        w  == SetMin(W)
    IN  (IF H = {} THEN <<>>
         ELSE << [FormatName |-> "header_format",
                  Captures |-> [msg_type |-> tk[h], hdr1 |-> tk[h + 1],
                                origin |-> SubSeq(tk[h + 2], 1, 4),
                                dest |-> SubSeq(tk[h + 2], 6, 9),
                                tail |-> tk[h + 3]]] >>)
        \o (IF A = {} THEN <<>>
            ELSE << [FormatName |-> "altitude",
                     Captures |-> [altitude |-> tk[a + 1]]] >>)
        \o (IF W = {} THEN <<>>
            ELSE << [FormatName |-> "wind",
                     Captures |-> [wdir |-> SubSeq(tk[w + 1], 1, 3),
                                   wspd |-> SubSeq(tk[w + 1], 4, 6)]] >>)

-----------------------------------------------------------------------------
(* Registry (package registry)                                             *)

Envelope == "envelope"
LabelParsers == {"fst", "label80", "h1", "h1pos", "adsc"}
ContentParsers == {"pdc", "loadsheet"}      \* loadsheet: any further content-based decoder
Parsers == LabelParsers \cup ContentParsers

AllLabels == {"15", "80", "H1", "A6", "B6", "ZZ"}

Labels(p) ==
    CASE p = "fst" -> FstLabels
      [] p = "label80" -> L80Labels
      [] p = "h1" -> {"H1"}
      [] p = "h1pos" -> {"H1"}
      [] p = "adsc" -> {"A6", "B6"}
      [] OTHER -> {}

\* Priority() of each parser; that of h1pos is not known and is a tie with
\* h1 or a later value.
Priorities ==
    { [p \in Parsers |->
          CASE p = "fst" -> FstPriority
            [] p = "label80" -> L80Priority
            [] p = "h1" -> 10
            [] p = "adsc" -> 100
            [] p = "pdc" -> 500
            [] p = "h1pos" -> a
            [] p = "loadsheet" -> 600] : a \in {10, 50} }

LowerSeq == <<"a", "c", "d", "e", "f", "i", "l", "n", "o", "p">>
UpperSeq == <<"A", "C", "D", "E", "F", "I", "L", "N", "O", "P">>

ToUpper(s) ==
    [k \in 1..Len(s) |->
        IF \E j \in 1..Len(LowerSeq) : LowerSeq[j] = s[k]
        THEN UpperSeq[CHOOSE j \in 1..Len(LowerSeq) : LowerSeq[j] = s[k]]
        ELSE s[k]]

PdcQuickCheck(text) ==
    LET upper == ToUpper(text)
    IN  IF Contains(upper, <<"N", "O", " ", "P", "D", "C", " ", "O", "N", " ", "F", "I", "L", "E">>)
        THEN FALSE
        ELSE Contains(upper, <<" ", "P", "D", "C">>) \/ HasPrefix(upper, <<"P", "D", "C">>)

\* QuickCheck of each parser: substring tests only.
QuickCheck(p, text) ==
    CASE p = "fst" -> FstQuickCheck(text)
      [] p = "label80" -> L80QuickCheck(text)
      [] p = "h1" -> Contains(text, <<":", "D", "A", ":">>)
      [] p = "h1pos" -> Contains(text, <<"P", "O", "S">>)
      [] p = "adsc" -> Contains(text, <<".", "A", "D", "S", ".">>)
      [] p = "pdc" -> PdcQuickCheck(text)
      [] p = "loadsheet" -> Contains(text, <<"L", "O", "A", "D", "S", "H", "E", "E", "T">>)
      [] OTHER -> TRUE

\* The Result of a decoder whose fields are not modelled: type and message id.
PlainResult(type, m) == [type |-> type, MsgID |-> m.ID]

EnvelopeParse(m) ==
    [type |-> "envelope", MsgID |-> m.ID, Label |-> m.Label, Tail |-> m.Tail,
     Text |-> m.Text]

GetCompilerRetry(d, cst, outcome) ==
    IF cst[d] = "none" THEN [cst EXCEPT ![d] = outcome[d]] ELSE [cst EXCEPT ![d] = "ok"]

\* getCompiler as one dispatch sees it: the first call compiles and stores
\* the outcome, every later call returns what is stored.
GetCompiler(d, cst, outcome) ==
    IF cst[d] = "none" THEN [cst EXCEPT ![d] = outcome[d]] ELSE cst

\* The Message as a parser leaves it: no parser writes to it.
MsgAfterParse(p, m) == m

\* Parse of parser p: [res: the Result or Nil, cst: the compilers' state,
\* m: the Message afterwards].
ParseCall(p, m, cst, outcome) ==
    LET c1 == IF p \in {"fst", "label80"} /\ m.Text # <<>>
              THEN GetCompiler(p, cst, outcome) ELSE cst
        res == CASE p = "fst" -> FstParse(m, c1["fst"] = "err")
                 [] p = "label80" ->
                       L80Parse(m, c1["label80"] = "err", L80ParseAll(TrimSpace(m.Text)))
                 [] p = "h1" ->
                       IF Contains(m.Text, <<":", "D", "A", ":">>)
                          /\ Contains(m.Text, <<":", "A", "A", ":">>)
                       THEN PlainResult("flight_plan", m) ELSE Nil
                 [] p = "h1pos" ->
                       IF \/ HasPrefix(TrimSpace(m.Text), <<"P", "O", "S", "N">>)
                          \/ HasPrefix(TrimSpace(m.Text), <<"P", "O", "S", "S">>)
                       THEN PlainResult("h1_position", m) ELSE Nil
                 [] p = "adsc" ->
                       IF Contains(m.Text, <<".", "A", "D", "S", ".">>)
                       THEN PlainResult("adsc", m) ELSE Nil
                 [] p = "pdc" ->
                       IF PdcQuickCheck(m.Text) THEN PlainResult("pdc", m) ELSE Nil
                 [] p = "loadsheet" ->
                       IF HasPrefix(TrimSpace(m.Text), <<"L", "O", "A", "D", "S", "H", "E", "E", "T">>)
                       THEN PlainResult("loadsheet", m) ELSE Nil
                 [] OTHER -> Nil
    IN  [res |-> res, cst |-> c1, m |-> MsgAfterParse(p, m)]

RECURSIVE InsertStable(_, _, _)

InsertBeforeEqual(list, p, prio) ==
    IF list = <<>> THEN <<p>>
    ELSE IF prio[Head(list)] < prio[p]
         THEN <<Head(list)>> \o InsertStable(Tail(list), p, prio)
         ELSE <<p>> \o list

\* sort.SliceStable by Priority(): insertion sort, equal priorities keep
\* their order.
InsertStable(list, p, prio) ==
    IF list = <<>> THEN <<p>>
    ELSE IF prio[Head(list)] <= prio[p]
         THEN <<Head(list)>> \o InsertStable(Tail(list), p, prio)
         ELSE <<p>> \o list

RECURSIVE SortStable(_, _)
SortStable(list, prio) ==
    IF list = <<>> THEN <<>>
    ELSE InsertStable(SortStable(SubSeq(list, 1, Len(list) - 1), prio),
                      list[Len(list)], prio)

\* Register: a parser with labels goes to the list of each of its labels, one
\* without to the content-based list; the list is then sorted by priority.
AddTo(list, p, prio) == SortStable(Append(list, p), prio)

-----------------------------------------------------------------------------
(* The variables of the parts a specification leaves out                    *)

RegOff ==
    /\ priority = "-" /\ byLabel = "-" /\ contentBased = "-" /\ catchAll = "-"
    /\ registered = "-" /\ regLog = "-"

DispOff ==
    /\ phase = "-" /\ msg = "-" /\ msgAfter = "-" /\ mode = "-" /\ calls = "-"
    /\ results = "-" /\ compiled = "-" /\ compileOutcome = "-" 
    /\ memo = "-"

OnceOff ==
    /\ pc = "-" /\ done = "-" /\ mu = "-" /\ grokCompiler = "-" /\ grokErr = "-"
    /\ compileCount = "-" /\ ret = "-" /\ parsed = "-" /\ nCalls = "-" /\ arg = "-"
    /\ onceOutcome = "-" /\ decoder = "-"

L80Off ==
    /\ l80Msg = "-" /\ l80Matches = "-" /\ l80Out = "-"

FstOff ==
    /\ fstMsg = "-" /\ fstOut = "-"

CoordOff ==
    /\ coordIn = "-" /\ coordOut = "-"

L16Off ==
    /\ l16In = "-" /\ l16Out = "-"

-----------------------------------------------------------------------------
(* Registration and dispatch                                               *)

TxFst == <<"F","S","T","0","1","E","G","L","L","W","S","S","S","N","4","5","2","1","4","0","E","0","2","4","9","2","7","5","3","3","0"," ","8","5","4"," ","2","4","2"," ","M","5","4","C"," ","6","2","3","5","4","1">>
TxFstPrefixed == <<" ","M","5","1","A","B","A","0","0","1","2","F","S","T","0","3","E","G","L","L","L","F","P","G","N","5","1","4","2","0","W","0","0","3","1","2"," ","3","3","0"," ","4","8","5">>
TxFstBad == <<"F","S","T","X","X"," ","P","D","C">>
TxL80 == <<"3","N","0","1"," ","P","O","S","R","P","T"," ","0","5","8","1","/","2","7"," ","K","I","A","H","/","M","M","M","X"," ",".","N","1","4","0","1","1"," ","/","A","L","T"," ","3","5","0"," ","/","W","N","D"," ","2","7","0","0","4","5">>
TxL80NoHeader == <<"/","A","L","T"," ","3","5","0"," ","N","O"," ","P","D","C"," ","O","N"," ","F","I","L","E">>
TxH1 == <<":","D","A",":","K","J","F","K",":","A","A",":","E","G","L","L">>
TxPos == <<"P","O","S","N","4","5","2","0","9","E","0","2","3","2","4","5",",","I","N","V","E","D"," ","L","O","A","D","S","H","E","E","T">>
TxPdc == <<"L","O","A","D","S","H","E","E","T"," ","P","D","C"," ","0","0","1">>

Texts == {<<>>, TxFst, TxFstPrefixed, TxFstBad, TxL80, TxL80NoHeader, TxH1, TxPos, TxPdc}

MaxID == 2

\* The labels of the Messages supplied: one per list, an unknown one, none.
MsgLabels == {"15", "80", "H1", "B6", "ZZ", ""}

Messages ==
    { m \in [ID : 1..MaxID, Timestamp : {"t0"}, Label : MsgLabels, Text : Texts,
              Tail : {<<"N", "1">>}] :
        m.ID = 1 \/ (m.Label = "15" /\ m.Text = TxFst) \/ (m.Label = "80" /\ m.Text = TxL80) }

\* The Messages whose repeated dispatches are compared.
ProbeMsgs ==
    { m \in Messages : /\ m.ID = 1
                       /\ \/ m.Label = "15" /\ m.Text = TxFst
                          \/ m.Label = "80" /\ m.Text = TxL80 }

Unset == [m |-> Nil, results |-> <<>>, again |-> FALSE]

ListKeys == AllLabels \cup {"*"}

Init ==
    /\ priority \in Priorities
    /\ byLabel = [l \in AllLabels |-> <<>>]
    /\ contentBased = <<>>
    /\ catchAll = ""
    /\ registered = {}
    /\ regLog = [k \in ListKeys |-> <<>>]
    /\ phase = "init"
    /\ msg = Nil /\ msgAfter = Nil /\ mode = "" /\ calls = <<>> /\ results = <<>>
    /\ compiled = [d \in {"fst", "label80"} |-> "none"]
    /\ compileOutcome \in { f \in [{"fst", "label80"} -> {"ok", "err"}] :
                              f["fst"] = "ok" \/ f["label80"] = "ok" }
    /\ memo = Unset
    /\ OnceOff /\ L80Off /\ FstOff /\ CoordOff /\ L16Off

\* registry.Register(p), from the init() of p's package.
Register(p) ==
    /\ phase = "init"
    /\ p \notin registered
    /\ registered' = registered \cup {p}
    /\ IF Labels(p) = {}
       THEN /\ contentBased' = AddTo(contentBased, p, priority)
            /\ regLog' = [regLog EXCEPT !["*"] = Append(@, p)]
            /\ UNCHANGED byLabel
       ELSE /\ byLabel' = [l \in AllLabels |->
                              IF l \in Labels(p) THEN AddTo(byLabel[l], p, priority)
                              ELSE byLabel[l]]
            /\ regLog' = [k \in ListKeys |->
                              IF k \in Labels(p) THEN Append(regLog[k], p) ELSE regLog[k]]
            /\ UNCHANGED contentBased
    /\ UNCHANGED <<priority, catchAll, dispVars, onceVars, l80Vars, fstVars, coordVars, l16Vars>>

\* The envelope registers as the catch-all.
RegisterCatchAll ==
    /\ phase = "init"
    /\ catchAll = ""
    /\ catchAll' = Envelope
    /\ UNCHANGED <<priority, byLabel, contentBased, registered, regLog, dispVars,
                   onceVars, l80Vars, fstVars, coordVars, l16Vars>>

\* Every init() has run; main starts.
InitDone ==
    /\ phase = "init"
    /\ registered = Parsers
    /\ catchAll = Envelope
    /\ phase' = "idle"
    /\ UNCHANGED <<regVars, msg, msgAfter, mode, calls, results, compiled,
                   compileOutcome, memo, onceVars, l80Vars, fstVars, coordVars, l16Vars>>

\* A caller builds a Message and picks a dispatch mode.
Supply(m, md) ==
    /\ phase = "idle"
    /\ msg' = m /\ msgAfter' = m /\ mode' = md
    /\ calls' = <<>> /\ results' = <<>>
    /\ phase' = "pending"
    /\ UNCHANGED <<regVars, compiled, compileOutcome, memo, onceVars, l80Vars,
                   fstVars, coordVars, l16Vars>>

\* One parser of a list after its Parse returned out.
VisitParsed(p, md, st, out) ==
    [calls |-> st.calls \o << [parser |-> p, op |-> "QuickCheck", ret |-> TRUE],
                              [parser |-> p, op |-> "Parse", ret |-> out.res # Nil] >>,
     results |-> IF out.res # Nil THEN Append(st.results, out.res) ELSE st.results,
     cst |-> out.cst,
     m |-> out.m,
     stop |-> md = "first" /\ out.res # Nil]

\* One parser of a list: QuickCheck, and Parse when it passed.
\* st is [calls, results, cst, m, stop].
Visit(p, md, st, outcome) ==
    IF st.stop THEN st
    ELSE IF ~QuickCheck(p, st.m.Text)
    THEN [st EXCEPT !.calls = Append(@, [parser |-> p, op |-> "QuickCheck", ret |-> FALSE])]
    ELSE VisitParsed(p, md, st, ParseCall(p, st.m, st.cst, outcome))

RECURSIVE VisitList(_, _, _, _, _)
VisitList(list, k, md, st, outcome) ==
    IF k > Len(list) THEN st
    ELSE VisitList(list, k + 1, md, Visit(list[k], md, st, outcome), outcome)

\* The catch-all after its Parse returned out.
CatchAllParsed(p, md, st, out) ==
    [calls |-> Append(st.calls, [parser |-> p, op |-> "Parse", ret |-> TRUE]),
     results |-> Append(st.results, out.res),
     cst |-> out.cst,
     m |-> out.m,
     stop |-> md = "first"]

\* The catch-all: invoked without a pre-filter, always yields a Result.
VisitCatchAll(p, md, st) ==
    IF st.stop \/ p = "" THEN st
    ELSE CatchAllParsed(p, md, st,
                        [res |-> EnvelopeParse(st.m), cst |-> st.cst,
                         m |-> MsgAfterParse(p, st.m)])

LabelList(bl, m) == IF m.Label # "" /\ m.Label \in DOMAIN bl THEN bl[m.Label] ELSE <<>>

DispatchOrderContentFirst(labelList, contentList) == contentList \o labelList

\* The order in which the lists are walked: the label's, then the
\* content-based.
DispatchOrder(labelList, contentList) == labelList \o contentList

\* dispatch_first / dispatch_all: the label's parsers, the content-based
\* parsers, the catch-all.
DispatchRun(bl, cb, ca, m, md, cst, outcome) ==
    LET s0 == [calls |-> <<>>, results |-> <<>>, cst |-> cst, m |-> m, stop |-> FALSE]
    IN  VisitCatchAll(ca, md, VisitList(DispatchOrder(LabelList(bl, m), cb), 1, md, s0,
                                        outcome))

\* The outcome st of the run becomes the state.
Deliver(st) ==
    /\ calls' = st.calls
    /\ results' = st.results
    /\ compiled' = st.cst
    /\ msgAfter' = st.m
    /\ memo' = IF memo = Unset /\ msg \in ProbeMsgs /\ mode = "all"
               THEN [m |-> msg, results |-> st.results, again |-> FALSE]
               ELSE IF msg = memo.m /\ mode = "all" THEN [memo EXCEPT !.again = TRUE]
               ELSE memo

Dispatch ==
    /\ phase = "pending"
    /\ Deliver(DispatchRun(byLabel, contentBased, catchAll, msg, mode, compiled,
                           compileOutcome))
    /\ phase' = "done"
    /\ UNCHANGED <<regVars, msg, mode, compileOutcome, onceVars, l80Vars, fstVars, coordVars, l16Vars>>

\* The caller is done with the Results.
Return ==
    /\ phase = "done"
    /\ phase' = "idle"
    /\ msg' = Nil /\ msgAfter' = Nil /\ mode' = "" /\ calls' = <<>> /\ results' = <<>>
    /\ UNCHANGED <<regVars, compiled, compileOutcome, memo, onceVars, l80Vars,
                   fstVars, coordVars, l16Vars>>

Next ==
    \/ \E p \in Parsers : Register(p)
    \/ RegisterCatchAll
    \/ InitDone
    \/ \E m \in Messages, md \in {"first", "all"} : Supply(m, md)
    \/ Dispatch
    \/ Return

Spec == Init /\ [][Next]_vars

-----------------------------------------------------------------------------
(* Properties of the registry and of dispatch                               *)

\* The group of a parser: 1 label-targeted, 2 content-based, 3 the catch-all.
Group(p) == IF p = Envelope THEN 3 ELSE IF Labels(p) = {} THEN 2 ELSE 1

Pos(seq, x) == CHOOSE i \in 1..Len(seq) : seq[i] = x

Elems(seq) == {seq[i] : i \in 1..Len(seq)}

IsQuickCheck(c) == c.op = "QuickCheck"

\* The parsers of the two lists in the order this dispatch reached them.
Visited ==
    LET q == SelectSeq(calls, IsQuickCheck)
    IN  [i \in 1..Len(q) |-> q[i].parser]

IsPrefix(a, b) == Len(a) <= Len(b) /\ SubSeq(b, 1, Len(a)) = a

\* C1: within one dispatch the parsers registered for the message's label
\* come first, priority ascending, then the content-based parsers, priority
\* ascending, then the envelope, which nothing follows; in dispatch_all the
\* envelope is always reached.
C1_DispatchOrder ==
    phase = "done" =>
        /\ \A i, j \in 1..Len(calls) :
              i < j =>
                 /\ Group(calls[i].parser) <= Group(calls[j].parser)
                 /\ (Group(calls[i].parser) = Group(calls[j].parser)
                     /\ Group(calls[i].parser) < 3)
                       => priority[calls[i].parser] <= priority[calls[j].parser]
        /\ \A i \in 1..Len(calls) :
              /\ Group(calls[i].parser) = 1 => msg.Label \in Labels(calls[i].parser)
              /\ calls[i].parser = Envelope => i = Len(calls)
        /\ mode = "all" => calls # <<>> /\ calls[Len(calls)].parser = Envelope

\* A dispatch_first that went through a label-targeted parser and a
\* content-based parser and ended at the envelope.
C1_Witness ==
    /\ phase = "done" /\ mode = "first"
    /\ \E i, j, k \in 1..Len(calls) :
          /\ Group(calls[i].parser) = 1
          /\ Group(calls[j].parser) = 2
          /\ Group(calls[k].parser) = 3

\* C2: dispatch_first returns exactly one Result, and every Result of a
\* dispatch, those of the Label 15 and Label 80 decoders included, carries
\* the id of the Message.
C2_MessageId ==
    phase = "done" =>
        /\ mode = "first" => Len(results) = 1
        /\ \A i \in 1..Len(results) : results[i] # Nil /\ results[i].MsgID = msg.ID

\* dispatch_first of a Message with id 2 returned the Label 15 decoder's Result.
C2_Witness ==
    /\ phase = "done" /\ mode = "first" /\ msg.ID = 2
    /\ Len(results) = 1 /\ results[1].type = "fst"

\* C3: Parse of a parser is invoked only when the parser is eligible for the
\* label (it declares none, or the message's is one of them; the Label 15
\* decoder only for "15", the Label 80 decoder only for "80") and its
\* QuickCheck, called just before, returned true; a parser whose QuickCheck
\* returned false is not invoked in that dispatch.
C3_OnlyEligible ==
    phase = "done" =>
        /\ \A i \in 1..Len(calls) :
              calls[i].op = "Parse" =>
                 /\ Labels(calls[i].parser) = {} \/ msg.Label \in Labels(calls[i].parser)
                 /\ calls[i].parser = "fst" => msg.Label = "15"
                 /\ calls[i].parser = "label80" => msg.Label = "80"
                 /\ QuickCheck(calls[i].parser, msg.Text)
                 /\ calls[i].parser # Envelope =>
                       /\ i > 1
                       /\ calls[i - 1] = [parser |-> calls[i].parser, op |-> "QuickCheck",
                                          ret |-> TRUE]
        /\ \A i, j \in 1..Len(calls) :
              (calls[i].op = "QuickCheck" /\ ~calls[i].ret /\ calls[j].op = "Parse")
                 => calls[j].parser # calls[i].parser

\* A Label 15 message that the Label 15 decoder's QuickCheck rejected and the
\* PDC decoder went on to parse.
C3_Witness ==
    /\ phase = "done" /\ msg.Label = "15"
    /\ \E i, j \in 1..Len(calls) :
          /\ calls[i] = [parser |-> "fst", op |-> "QuickCheck", ret |-> FALSE]
          /\ calls[j].op = "Parse" /\ calls[j].parser = "pdc"

\* list holds the parsers of log, by priority, equal priorities in the order
\* of log.
SortedAsRegistered(list, log) ==
    /\ Len(list) = Len(log)
    /\ Elems(list) = Elems(log)
    /\ \A i, j \in 1..Len(list) :
          i < j => \/ priority[list[i]] < priority[list[j]]
                   \/ /\ priority[list[i]] = priority[list[j]]
                      /\ Pos(log, list[i]) < Pos(log, list[j])

\* C4: after any registrations every list of the registry is ordered by
\* priority, equal priorities by registration order, and a dispatch calls the
\* parsers of the label's list and of the content-based list in that order.
C4_StableOrder ==
    /\ \A l \in AllLabels : SortedAsRegistered(byLabel[l], regLog[l])
    /\ SortedAsRegistered(contentBased, regLog["*"])
    /\ phase = "done" =>
          /\ IsPrefix(Visited, LabelList(byLabel, msg) \o contentBased)
          /\ mode = "all" => Visited = LabelList(byLabel, msg) \o contentBased

\* Two H1 parsers of equal priority, the later-registered one first in
\* neither the list nor the dispatch.
C4_Witness ==
    /\ phase = "done" /\ msg.Label = "H1"
    /\ priority["h1"] = priority["h1pos"]
    /\ regLog["H1"] = <<"h1pos", "h1">>
    /\ Len(Visited) >= 2 /\ Visited[1] = "h1pos" /\ Visited[2] = "h1"

\* C6: a dispatch_all of a Message returns what the first dispatch_all of
\* that Message returned, whatever was dispatched before or in between, and
\* no dispatch changes the Message.
C6_Idempotent ==
    phase = "done" =>
        /\ msgAfter = msg
        /\ (mode = "all" /\ msg = memo.m) => results = memo.results

\* A repeated dispatch_all of a Label 15 message that the decoder parsed, the
\* Label 80 decoder having been used as well.
C6_Witness ==
    /\ phase = "done" /\ mode = "all" /\ msg = memo.m /\ memo.again
    /\ msg.Label = "15"
    /\ \E i \in 1..Len(results) : results[i].type = "fst"
    /\ compiled["label80"] # "none"

\* C18: for a Message with an empty text, Parse of the Label 15 and of the
\* Label 80 decoder returns nothing, whatever the compiler's state, and the
\* dispatch ends with the envelope's Result alone.
C18_EmptyText ==
    (phase = "done" /\ msg.Text = <<>>) =>
        /\ \A e \in BOOLEAN :
              /\ FstParse(msg, e) = Nil
              /\ L80Parse(msg, e, L80ParseAll(TrimSpace(msg.Text))) = Nil
        /\ \A i \in 1..Len(calls) :
              (calls[i].op = "Parse" /\ calls[i].ret) => calls[i].parser = Envelope
        /\ Len(results) = 1
        /\ results[1] = EnvelopeParse(msg)

\* dispatch_all of a Label 80 Message with an empty text: the Label 80
\* decoder's Parse was invoked and returned nothing; the envelope's Result is
\* the only one.
C18_Witness ==
    /\ phase = "done" /\ mode = "all"
    /\ msg.Text = <<>> /\ msg.Label = "80"
    /\ \E i \in 1..Len(calls) :
          calls[i] = [parser |-> "label80", op |-> "Parse", ret |-> FALSE]
    /\ Len(results) = 1 /\ results[1].type = "envelope"

-----------------------------------------------------------------------------
(* getCompiler under concurrent Parse calls (SpecOnce)                      *)

MaxProcs == 2
MaxCalls == 2

Procs == 1..MaxProcs

\* The texts the goroutines parse.
OnceTexts(d) == IF d = "fst" THEN {TxFst, <<>>} ELSE {TxL80, <<>>}

OnceMsgs(d) ==
    [ID : {1}, Timestamp : {"t0"}, Label : Labels(d), Text : OnceTexts(d),
     Tail : {<<"N", "1">>}]

NoRet == [compiler |-> "-", err |-> "-"]
Unparsed == [type |-> "unparsed"]
Crash == [type |-> "crash"]

InitOnce ==
    /\ decoder \in {"fst", "label80"}
    /\ onceOutcome \in {"ok", "err"}
    /\ pc = [g \in Procs |-> "idle"]
    /\ done = 0 /\ mu = 0
    /\ grokCompiler = "nil" /\ grokErr = "nil"
    /\ compileCount = 0
    /\ ret = [g \in Procs |-> NoRet]
    /\ parsed = [g \in Procs |-> Unparsed]
    /\ nCalls = [g \in Procs |-> 0]
    /\ arg = [g \in Procs |-> Nil]
    /\ RegOff /\ DispOff /\ L80Off /\ FstOff /\ CoordOff /\ L16Off

\* Parse is called: nil at once for an empty text, getCompiler otherwise.
OnceCall(g, m) ==
    /\ pc[g] = "idle"
    /\ nCalls[g] < MaxCalls
    /\ nCalls' = [nCalls EXCEPT ![g] = @ + 1]
    /\ arg' = [arg EXCEPT ![g] = m]
    /\ ret' = [ret EXCEPT ![g] = NoRet]
    /\ parsed' = [parsed EXCEPT ![g] = IF m.Text = <<>> THEN Nil ELSE Unparsed]
    /\ pc' = [pc EXCEPT ![g] = IF m.Text = <<>> THEN "idle" ELSE "load"]
    /\ UNCHANGED <<done, mu, grokCompiler, grokErr, compileCount, onceOutcome, decoder,
                   regVars, dispVars, l80Vars, fstVars, coordVars, l16Vars>>

\* Once.Do: the fast path reads done.
OnceLoad(g) ==
    /\ pc[g] = "load"
    /\ pc' = [pc EXCEPT ![g] = IF done = 1 THEN "return" ELSE "lock"]
    /\ UNCHANGED <<done, mu, grokCompiler, grokErr, compileCount, ret, parsed, nCalls, arg,
                   onceOutcome, decoder, regVars, dispVars, l80Vars, fstVars, coordVars, l16Vars>>

\* Once.Do, slow path: the mutex.
OnceLock(g) ==
    /\ pc[g] = "lock"
    /\ mu = 0
    /\ mu' = g
    /\ pc' = [pc EXCEPT ![g] = "recheck"]
    /\ UNCHANGED <<done, grokCompiler, grokErr, compileCount, ret, parsed, nCalls, arg,
                   onceOutcome, decoder, regVars, dispVars, l80Vars, fstVars, coordVars, l16Vars>>

SlowPathAlways(d) == TRUE

\* Once.Do, slow path: the function runs when done is still 0 under the mutex.
SlowPathRuns(d) == d = 0

OnceRecheck(g) ==
    /\ pc[g] = "recheck"
    /\ pc' = [pc EXCEPT ![g] = IF SlowPathRuns(done) THEN "new" ELSE "unlock"]
    /\ UNCHANGED <<done, mu, grokCompiler, grokErr, compileCount, ret, parsed, nCalls, arg,
                   onceOutcome, decoder, regVars, dispVars, l80Vars, fstVars, coordVars, l16Vars>>

\* grokCompiler = patterns.NewCompiler(Formats, nil)
OnceNew(g) ==
    /\ pc[g] = "new"
    /\ grokCompiler' = "new"
    /\ pc' = [pc EXCEPT ![g] = "compile"]
    /\ UNCHANGED <<done, mu, grokErr, compileCount, ret, parsed, nCalls, arg, onceOutcome,
                   decoder, regVars, dispVars, l80Vars, fstVars, coordVars, l16Vars>>

\* grokErr = grokCompiler.Compile()
OnceCompile(g) ==
    /\ pc[g] = "compile"
    /\ grokCompiler' = IF onceOutcome = "ok" THEN "ready" ELSE "failed"
    /\ grokErr' = IF onceOutcome = "ok" THEN "nil" ELSE "err"
    /\ compileCount' = compileCount + 1
    /\ pc' = [pc EXCEPT ![g] = "store"]
    /\ UNCHANGED <<done, mu, ret, parsed, nCalls, arg, onceOutcome, decoder, regVars,
                   dispVars, l80Vars, fstVars, coordVars, l16Vars>>

\* Once.Do, slow path: done is stored once the function has returned.
OnceStore(g) ==
    /\ pc[g] = "store"
    /\ done' = 1
    /\ pc' = [pc EXCEPT ![g] = "unlock"]
    /\ UNCHANGED <<mu, grokCompiler, grokErr, compileCount, ret, parsed, nCalls, arg,
                   onceOutcome, decoder, regVars, dispVars, l80Vars, fstVars, coordVars, l16Vars>>

OnceUnlock(g) ==
    /\ pc[g] = "unlock"
    /\ mu' = 0
    /\ pc' = [pc EXCEPT ![g] = "return"]
    /\ UNCHANGED <<done, grokCompiler, grokErr, compileCount, ret, parsed, nCalls, arg,
                   onceOutcome, decoder, regVars, dispVars, l80Vars, fstVars, coordVars, l16Vars>>

\* return grokCompiler, grokErr
OnceReturn(g) ==
    /\ pc[g] = "return"
    /\ ret' = [ret EXCEPT ![g] = [compiler |-> grokCompiler, err |-> grokErr]]
    /\ pc' = [pc EXCEPT ![g] = "parse"]
    /\ UNCHANGED <<done, mu, grokCompiler, grokErr, compileCount, parsed, nCalls, arg,
                   onceOutcome, decoder, regVars, dispVars, l80Vars, fstVars, coordVars, l16Vars>>

\* Parse of decoder d with a compiler that is ready.
DecoderParse(d, m) ==
    IF d = "fst" THEN FstParse(m, FALSE)
    ELSE L80Parse(m, FALSE, L80ParseAll(TrimSpace(m.Text)))

\* The rest of Parse: nil on an error, else the compiler is used; using one
\* that is not compiled is a crash.
OnceParse(g) ==
    /\ pc[g] = "parse"
    /\ parsed' = [parsed EXCEPT ![g] =
                     IF ret[g].err # "nil" THEN Nil
                     ELSE IF ret[g].compiler # "ready" THEN Crash
                     ELSE DecoderParse(decoder, arg[g])]
    /\ pc' = [pc EXCEPT ![g] = "idle"]
    /\ UNCHANGED <<done, mu, grokCompiler, grokErr, compileCount, ret, nCalls, arg,
                   onceOutcome, decoder, regVars, dispVars, l80Vars, fstVars, coordVars, l16Vars>>

NextOnce ==
    \/ \E g \in Procs : \E m \in OnceMsgs(decoder) : OnceCall(g, m)
    \/ \E g \in Procs : OnceLoad(g)
    \/ \E g \in Procs : OnceLock(g)
    \/ \E g \in Procs : OnceRecheck(g)
    \/ \E g \in Procs : OnceNew(g)
    \/ \E g \in Procs : OnceCompile(g)
    \/ \E g \in Procs : OnceStore(g)
    \/ \E g \in Procs : OnceUnlock(g)
    \/ \E g \in Procs : OnceReturn(g)
    \/ \E g \in Procs : OnceParse(g)

SpecOnce == InitOnce /\ [][NextOnce]_vars

\* What every getCompiler call must return.
Terminal ==
    [compiler |-> IF onceOutcome = "ok" THEN "ready" ELSE "failed",
     err |-> IF onceOutcome = "ok" THEN "nil" ELSE "err"]

\* C5: under every interleaving the compiler is created and compiled at most
\* once; once done is set the compiler and the error no longer change; every
\* getCompiler call returns the same terminal outcome; no Parse uses a
\* compiler that is not ready; and after a failed compilation every Parse
\* returns nil.
C5_CompileOnce ==
    /\ compileCount <= 1
    /\ done = 1 => compileCount = 1 /\ [compiler |-> grokCompiler, err |-> grokErr] = Terminal
    /\ \A g \in Procs :
          /\ ret[g] # NoRet => ret[g] = Terminal
          /\ parsed[g] # Crash
          /\ onceOutcome = "err" => parsed[g] \in {Nil, Unparsed}

\* Compilation failed; one goroutine has been returned nil for a text, while
\* another, which had found done unset, holds the mutex and finds it set.
C5_Witness ==
    /\ onceOutcome = "err" /\ compileCount = 1 /\ done = 1
    /\ \E g, h \in Procs :
          /\ g # h
          /\ pc[g] = "recheck"
          /\ pc[h] = "idle" /\ nCalls[h] > 0 /\ arg[h].Text # <<>> /\ parsed[h] = Nil


-----------------------------------------------------------------------------
(* The Label 80 decoder on one list of matches (SpecL80)                    *)

DigitChar(d) == CHOOSE c \in Digit : DigitVal(c) = d

\* The decimal numeral of n >= 0, and the numeral padded with zeros to w.
RECURSIVE Decimal(_)
Decimal(n) == IF n < 10 THEN <<DigitChar(n)>> ELSE Decimal(n \div 10) \o <<DigitChar(n % 10)>>

RECURSIVE Pad(_, _)
Pad(s, w) == IF Len(s) >= w THEN s ELSE Pad(<<"0">> \o s, w)

MaxMatches == 3
MaxWdir == 720
MaxKts == 300
MaxAlt == 600

KIAH == <<"K", "I", "A", "H">>
MMMX == <<"M", "M", "M", "X">>

HeaderMatch ==
    [FormatName |-> "header_format",
     Captures |-> [msg_type |-> <<"P", "O", "S", "R", "P", "T">>,
                   hdr1 |-> <<"U", "A", "L", "8", "1">>,
                   origin |-> KIAH, dest |-> MMMX,
                   tail |-> <<".", "N", "1", "4", "0", "1", "1">>]]

AltFormatMatch ==
    [FormatName |-> "alt_format",
     Captures |-> [flight |-> <<"U", "A", "L", "8", "1">>, origin |-> KIAH, dest |-> MMMX]]

PositionMatch ==
    [FormatName |-> "position",
     Captures |-> [lat |-> <<"3", "8", ".", "1", "2", "5">>, lat_dir |-> "N",
                   lon |-> <<"0", "7", "7", "4", "5">>, lon_dir |-> "W"]]

AltitudeMatch(tok) == [FormatName |-> "altitude", Captures |-> [altitude |-> tok]]

WindMatch(wdir, wspd) == [FormatName |-> "wind", Captures |-> [wdir |-> wdir, wspd |-> wspd]]

MatchPool ==
    {HeaderMatch, AltFormatMatch, PositionMatch,
     AltitudeMatch(<<"3", "5", "0">>), WindMatch(<<"2", "7", "0">>, <<"0", "4", "5">>)}

\* Up to MaxMatches matches of different formats, in any order.
MixedInputs ==
    { q \in UNION { [1..n -> MatchPool] : n \in 0..MaxMatches } :
         \A i, j \in 1..Len(q) : i # j => q[i] # q[j] }

WindInputs ==
    { <<HeaderMatch, WindMatch(Pad(Decimal(d), 3), <<"0", "4", "5">>)>> : d \in 0..MaxWdir }
    \cup { <<HeaderMatch, WindMatch(<<"2", "7", "0">>, Pad(Decimal(k), 3))>> : k \in 0..MaxKts }
    \cup { <<HeaderMatch, WindMatch(<<"-", "9", "0">>, <<"1", "2">>)>>,
           <<HeaderMatch, WindMatch(<<"x">>, <<"y">>)>> }

AltitudeTokens ==
    { Decimal(k) : k \in 0..MaxAlt }
    \cup { <<"0">> \o Decimal(k) : k \in 0..MaxAlt }
    \cup { <<"3", "5", "0", "0", "0">>, <<" ", "3", "5", "0", " ">>, <<"+", "3", "5">>,
           <<"-", "5">>, <<"F", "L", "3">>, <<>> }

AltitudeInputs == { <<HeaderMatch, AltitudeMatch(t)>> : t \in AltitudeTokens }

L80Inputs == MixedInputs \cup WindInputs \cup AltitudeInputs

L80Message ==
    [ID |-> 1, Timestamp |-> "t0", Label |-> "80", Text |-> TxL80, Tail |-> <<"N", "1">>]

InitL80 ==
    /\ l80Msg = L80Message
    /\ l80Matches \in L80Inputs
    /\ l80Out = Unparsed
    /\ RegOff /\ DispOff /\ OnceOff /\ FstOff /\ CoordOff /\ L16Off

\* Parse on the matches the compiler returned.
L80Run ==
    /\ l80Out = Unparsed
    /\ l80Out' = L80Parse(l80Msg, FALSE, l80Matches)
    /\ UNCHANGED <<l80Msg, l80Matches, regVars, dispVars, onceVars, fstVars, coordVars, l16Vars>>

NextL80 == L80Run

SpecL80 == InitL80 /\ [][NextL80]_vars

L80Emitted == l80Out # Unparsed /\ l80Out # Nil

HasFormat(name) == \E i \in 1..Len(l80Matches) : l80Matches[i].FormatName = name

\* C7 as stated: a Result is emitted only if header_format matched.
C7_HeaderOnly == L80Emitted => HasFormat("header_format")

\* C7, amended: a Result is emitted exactly when header_format or alt_format
\* matched; when neither did, Parse returns nothing whatever else matched.
C7_HeaderOrAltFormat ==
    l80Out # Unparsed =>
        (l80Out # Nil <=> (HasFormat("header_format") \/ HasFormat("alt_format")))

\* alt_format matched, header_format did not, and a Result built from
\* alt_format is emitted.
C7_Witness ==
    /\ L80Emitted
    /\ HasFormat("alt_format") /\ ~HasFormat("header_format")
    /\ l80Out.MsgType = <<"F", "L", "T">>

\* C9: the km/h of a wind of kts knots is (kts*1852 + 500) div 1000, which is
\* the integer nearest to kts*1.852, and no smaller speed converts to more.
C9_WindKmh ==
    L80Emitted =>
        \A i \in 1..Len(l80Matches) :
            (/\ l80Matches[i].FormatName = "wind"
             /\ l80Matches[i].Captures.wspd # <<>>
             /\ AllDigits(l80Matches[i].Captures.wspd))
            => LET kts == DigitsVal(l80Matches[i].Captures.wspd)
                   kmh == l80Out.WindSpeedKmh
               IN  /\ l80Out.WindSpeedKts = kts
                   /\ kmh = (kts * 1852 + 500) \div 1000
                   /\ 1000 * kmh - 1852 * kts <= 500
                   /\ 1852 * kts - 1000 * kmh <= 500
                   /\ \A j \in 0..kts : L80Kmh(j) <= kmh

\* 125 kt is 231.5 km/h, reported as 232.
C9_Witness ==
    /\ L80Emitted
    /\ l80Out.WindSpeedKts = 125
    /\ l80Out.WindSpeedKmh = 232

\* C10: an altitude token of one to three digits with a value of 1 to 500 is
\* a flight level and gives a hundred times its value in feet; every other
\* token of digits gives its value.
C10_AltitudeHeuristic ==
    L80Emitted =>
        \A i \in 1..Len(l80Matches) :
            l80Matches[i].FormatName = "altitude" =>
                LET t == TrimSpace(l80Matches[i].Captures.altitude)
                    v == DigitsVal(t)
                IN  (t # <<>> /\ AllDigits(t)) =>
                        l80Out.Altitude = IF Len(t) <= 3 /\ 1 <= v /\ v <= 500
                                          THEN v * 100 ELSE v

\* "350" gives 35000 ft.
C10_Witness ==
    /\ L80Emitted
    /\ \E i \in 1..Len(l80Matches) :
          /\ l80Matches[i].FormatName = "altitude"
          /\ l80Matches[i].Captures.altitude = <<"3", "5", "0">>
    /\ l80Out.Altitude = 35000

\* The altitude token of the input, trimmed, is tok.
AltitudeTokenIs(tok) ==
    \E i \in 1..Len(l80Matches) :
        /\ l80Matches[i].FormatName = "altitude"
        /\ TrimSpace(l80Matches[i].Captures.altitude) = tok

\* C11 as stated: the altitude token "600" decodes to 60000 ft.
C11_Token600IsFL600 ==
    (L80Emitted /\ AltitudeTokenIs(<<"6", "0", "0">>)) => l80Out.Altitude = 60000

\* C11, amended: the altitude token "600" is above the flight-level limit of
\* 500 and decodes to 600 ft, like "501"; "500" is the last token rescaled.
C11_Token600Unscaled ==
    L80Emitted =>
        /\ AltitudeTokenIs(<<"6", "0", "0">>) => l80Out.Altitude = 600
        /\ AltitudeTokenIs(<<"5", "0", "1">>) => l80Out.Altitude = 501
        /\ AltitudeTokenIs(<<"5", "0", "0">>) => l80Out.Altitude = 50000

\* The token "600" was decoded and the Result carries 600 ft.
C11_Witness ==
    /\ L80Emitted
    /\ AltitudeTokenIs(<<"6", "0", "0">>)
    /\ l80Out.Altitude = 600

\* The Label 80 wind direction is always in 0..359.
L80WindDirInRange == L80Emitted => l80Out.WindDir \in 0..359

-----------------------------------------------------------------------------
(* The Label 15 decoder on one text (SpecFst)                               *)

MaxWindDir == 400

\* A Label 15 report up to the temperature; the wind token follows.
FstHead ==
    <<"F","S","T","0","1","E","G","L","L","W","S","S","S","N","4","5","2","1","4","0","E","0","2","4","9","2","7","5","3","3","0"," ","8","5","4"," ","2","4","2"," ","M","5","4","C"," ">>

\* Wind tokens SSDDD and SSSDDD.
WindTokens ==
    { Pad(Decimal(sp), 2) \o Pad(Decimal(d), 3) : sp \in {0, 62}, d \in 0..MaxWindDir }
    \cup { Pad(Decimal(sp), 3) \o Pad(Decimal(d), 3) : sp \in {123}, d \in 0..MaxWindDir }

\* The header of that report up to the longitude; the flight level follows
\* the longitude without a blank.
FstHead7 == <<"F", "S", "T", "0", "1", "E", "G", "L", "L", "W", "S", "S", "S", "N", "4", "5", "2", "1", "4", "0", "E", "0", "2", "4", "9", "2", "7", "5">>

MaxSpeed == 1100
MaxNext == 1100

\* Speed tokens: every numeral up to MaxSpeed, seven-character tokens, and
\* tokens of other widths or not numeric.
SpeedTokens ==
    { Decimal(v) : v \in 0..MaxSpeed }
    \cup { Decimal(ias) \o Pad(Decimal(kmh), 4) : ias \in {100, 200, 999}, kmh \in {0, 1, 1084, 9999} }
    \cup { <<"1", "0", "0", "0", "0", "0", "0">>, <<"1", "0", "0", "0", "0", "0", "1">>, <<"0", "9", "9", "9", "9", "9", "9">>, <<"0", "0", "0", "0", "8", "5", "4">>, <<"0", "0", "4", "5", "0">>,
           <<"2", "0", "0", "1", "0">>, <<"2", "0", "0", "1", "0", "8">>, <<"1", "0", "8", "4">>, <<"9", "9", "9", "9">>, <<"0", "1", "0", "8", "4">>, <<"0", "0", "5", "0">>, <<"0", "1", "9", "2">>, <<"G", "S", "4", "5", "0">>, <<"M", "5", "4", "C">> }

SpeedTexts ==
    { FstHead7 \o <<"3", "3", "0", " ">> \o tok \o <<" ", "2", "4", "2", " ", "M", "5", "4", "C", " ", "6", "2", "3", "5", "4">> : tok \in SpeedTokens }

\* The token after an IAS: every numeral up to MaxNext, or no number.
NextTokens == { Decimal(v) : v \in 0..MaxNext } \cup { <<"M", "4", "9", "C">>, <<"X", "Y", "Z">> }

TwoFieldTexts ==
    { FstHead7 \o <<"4", "0", "0", " ">> \o Decimal(ias) \o <<" ">> \o nx \o <<" ", "M", "4", "9", "C", " ", "6", "3", "2", "8", "6">> :
        ias \in {100, 192, 235, 349}, nx \in NextTokens }
    \cup { FstHead7 \o <<"4", "0", "0", " ">> \o Decimal(ias) : ias \in {100, 192, 235, 349} }

\* Reports with damaged parts.  The header up to the destination, then the
\* coordinates with six and seven or with five and five digits, some of which
\* parseCoord rejects (957315, 2009275, 51999, 00999).
CorruptHead == <<"F", "S", "T", "0", "1", "E", "G", "L", "L", "W", "S", "S", "S">>

CorruptCoords ==
    { <<"N", "4", "5", "2", "1", "4", "0", "E", "0", "2", "4", "9", "2", "7", "5">>, <<"N", "9", "5", "7", "3", "1", "5", "E", "0", "2", "4", "9", "2", "7", "5">>,
      <<"S", "4", "5", "2", "1", "4", "0", "W", "2", "0", "0", "9", "2", "7", "5">>, <<"N", "9", "5", "7", "3", "1", "5", "E", "2", "0", "0", "9", "2", "7", "5">>,
      <<"N", "5", "1", "4", "2", "0", "W", "0", "0", "3", "1", "2">>, <<"N", "5", "1", "9", "9", "9", "W", "0", "0", "3", "1", "2">>,
      <<"S", "5", "1", "4", "2", "0", "E", "0", "0", "9", "9", "9">>, <<"N", "5", "1", "9", "9", "9", "W", "0", "0", "9", "9", "9">> }

\* The fields after the longitude: flight level, speed, a skipped field,
\* temperature, wind; each sound or damaged, and the list cut short anywhere.
CorruptFields ==
    { <<fl, sp, <<"2", "4", "2">>, tp, wd>> :
        fl \in { <<"3", "3", "0">>, <<"6", "0", "1">>, <<"9", "9", "9">>, <<"X", "X", "X">> },
        sp \in { <<"8", "5", "4">>, <<"X", "X", "X">> },
        tp \in { <<"M", "5", "4", "C">>, <<"M", "X", "X", "C">> },
        wd \in { <<"6", "2", "3", "5", "4">>, <<"6", "2", "9", "9", "9">>, <<"6", "X", "3", "5", "4">> } }

RECURSIVE JoinFields(_, _)
JoinFields(f, n) ==
    IF n = 0 THEN <<>>
    ELSE IF n = 1 THEN f[1]
    ELSE JoinFields(f, n - 1) \o <<" ">> \o f[n]

CorruptTexts ==
    { CorruptHead \o c \o JoinFields(f, n) :
        c \in CorruptCoords, f \in CorruptFields, n \in 1..5 }

\* The same headers with nothing after the longitude.
BareHeaders == { CorruptHead \o c : c \in CorruptCoords }

\* Reports with six longitude digits followed by a blank.
SixDigitTexts ==
    { <<"F", "S", "T", "0", "1", "E", "G", "G", "D", "E", "G", "L", "L", "N", "5", "1", "4", "2", "0", "0", "W", "0", "0", "3", "1", "2", "0", " ", "3", "3", "0", " ", "4", "8", "5">>,
      <<"F", "S", "T", "0", "2", "O", "B", "B", "I", "E", "G", "L", "L", "N", "4", "5", "3", "6", "1", "9", "E", "0", "2", "3", "0", "0", "5", " ", "4", "0", "0", " ", "1", "9", "2", " ", "3", "1", "2", " ", "M", "4", "9", "C", " ", "6", "3", "2", "8", "6">> }

\* Reports whose temperature token comes third, fourth or fifth, is sound or
\* not, and is followed by a wind token, by another temperature or by
\* nothing; some end with a second temperature and wind.
TempTokens ==
    { <<"M", "5", "4", "C">>, <<"P", "1", "5", "C">>, <<"M", "0", "2", "0">>, <<"P", "0", "5">>, <<"M", "5", "C">>,
      <<"M", "1", "2", "3", "4", "C">>, <<"X", "5", "4", "C">>, <<"M", "5", "4", "D">>, <<"m", "5", "4", "C">> }

AfterTemp ==
    { <<>>, <<<<"6", "2", "3", "5", "4">>>>, <<<<"1", "9", "9", "0", "4", "5">>>>, <<<<"0", "0", "3", "5", "4">>>>, <<<<"6", "2", "3", "5">>>>,
      <<<<"6", "2", "3", "6", "1">>>>, <<<<"P", "1", "5", "C">>>>, <<<<"6", "X", "3", "5", "4">>>>,
      <<<<"6", "2", "3", "5", "4", "1", "0", "7", "1", "1", "9", "5", "0", "9", "1", "1", "6", "0", "0", "0", "0", "9", "5", "9", "0", "0", "0", "4">>>> }

TempFields ==
    { pre \o <<tp>> \o wd \o post :
        pre \in { <<>>, <<<<"2", "4", "2">>>>, <<<<"2", "4", "2">>, <<"1", "7">>>> },
        tp \in TempTokens, wd \in AfterTemp,
        post \in { <<>>, <<<<"P", "1", "5", "C">>, <<"1", "1", "0", "9", "0">>>> } }

TempTexts ==
    { FstHead7 \o <<"3", "3", "0", " ", "8", "5", "4", " ">> \o JoinFields(f, Len(f)) : f \in TempFields }
    \cup { FstHead7 \o <<"3", "3", "0", " ", "M", "5", "4", "C", " ", "6", "2", "3", "5", "4">> }

\* Reports behind a prefix, with several sequence numbers.
PrefixedTexts ==
    { <<" ", "M", "5", "1", "A", "B", "A", "0", "0", "1", "2", "F", "S", "T">> \o seq \o <<"E", "G", "L", "L", "L", "F", "P", "G", "N", "5", "1", "4", "2", "0", "W", "0", "0", "3", "1", "2", " ", "3", "3", "0", " ", "4", "8", "5">> :
        seq \in { <<"0", "1">>, <<"0", "2">>, <<"0", "3">>, <<"1", "0">> } }

\* Reports with six digits after the longitude letter, followed by nothing,
\* by a separator or directly by the digits of the flight level.
SixLonHead == <<"F", "S", "T", "0", "1", "E", "G", "L", "L", "W", "S", "S", "S", "N", "4", "5", "2", "1", "4", "0">>
SixLonDigits == { <<"0", "2", "4", "9", "2", "7">>, <<"0", "0", "3", "1", "2", "0">>, <<"1", "0", "4", "3", "1", "5">> }
SixLonRests ==
    { <<"3", "3", "0", " ", "8", "5", "4">>,
      <<" ", "3", "3", "0", " ", "8", "5", "4">>,
      <<"5">>,
      <<"3", "\n">>,
      <<"3", "3">>,
      <<"3", " ", "8", "5", "4">>,
      <<>>,
      <<"A", "3", "3", "0", " ", "4", "8", "5">>,
      <<"3", "\n", "8", "5", "4">>,
      <<"\n", "3", "3", "0">> }

SixLonTexts ==
    { SixLonHead \o <<d>> \o g \o r : d \in LonDir, g \in SixLonDigits, r \in SixLonRests }

\* Reports whose digit groups are at or beyond the poles and the date line.
EdgeCoords ==
    { <<<<"9", "1", "5", "9", "0", "0">>, <<"0", "2", "4", "9", "2", "7", "5">>>>,
      <<<<"9", "0", "0", "0", "0", "0">>, <<"1", "8", "0", "0", "0", "0", "0">>>>,
      <<<<"9", "0", "0", "0", "0", "1">>, <<"1", "8", "0", "9", "9", "9", "9">>>>,
      <<<<"9", "9", "5", "9", "9", "9">>, <<"1", "8", "1", "0", "0", "0", "0">>>>,
      <<<<"4", "5", "2", "1", "4", "0">>, <<"1", "8", "0", "0", "0", "0", "1">>>>,
      <<<<"9", "9", "5", "9", "9">>, <<"1", "7", "9", "5", "9">>>>,
      <<<<"0", "0", "0", "0", "0", "0">>, <<"0", "0", "0", "0", "0", "0", "0">>>>,
      <<<<"8", "9", "6", "0", "0", "0">>, <<"0", "2", "4", "9", "2", "7", "5">>>> }

EdgeTexts ==
    { CorruptHead \o <<a>> \o c[1] \o <<b>> \o c[2] \o <<" ", "3", "3", "0", " ", "4", "8", "5">> :
        a \in LatDir, b \in LonDir, c \in EdgeCoords }

FstTexts ==
    { FstHead \o w : w \in WindTokens } \cup SpeedTexts \cup TwoFieldTexts \cup TempTexts
    \cup PrefixedTexts \cup SixLonTexts \cup EdgeTexts
    \cup CorruptTexts \cup BareHeaders \cup SixDigitTexts \cup Texts

FstInputs ==
    [ID : {1}, Timestamp : {"t0"}, Label : {"15"}, Text : FstTexts, Tail : {<<"N", "1">>}]

InitFst ==
    /\ fstMsg \in FstInputs
    /\ fstOut = Unparsed
    /\ RegOff /\ DispOff /\ OnceOff /\ L80Off /\ CoordOff /\ L16Off

\* Parse with the compiler ready.
FstRun ==
    /\ fstOut = Unparsed
    /\ fstOut' = FstParse(fstMsg, FALSE)
    /\ UNCHANGED <<fstMsg, regVars, dispVars, onceVars, l80Vars, coordVars, l16Vars>>

NextFst == FstRun

SpecFst == InitFst /\ [][NextFst]_vars

FstEmitted == fstOut # Unparsed /\ fstOut # Nil

\* C8 as stated, for the Label 15 decoder: the wind direction of every
\* Result is in [0, 360).
C8_WindDirBelow360 == FstEmitted => fstOut.WindDirection \in 0..359


\* A Result was emitted for a text that starts with FstHead7, whose fields
\* start at the 29th character.
FstHeadEmitted == FstEmitted /\ HasPrefix(fstMsg.Text, FstHead7)

FstFieldsIn == Fields(SubSeq(fstMsg.Text, 29, Len(fstMsg.Text)))

\* The three classes of C16 for a speed token tok of digits with value v.
SpeedAsClassified(tok, v) ==
    /\ (Len(tok) = 7 /\ v > 1000000)
       => /\ fstOut.IAS = DigitsVal(SubSeq(tok, 1, 3))
          /\ fstOut.GroundSpeed = DigitsVal(SubSeq(tok, 4, 7))
          /\ fstOut.SpeedUnit = "kmh" /\ fstOut.SpeedType = "IAS+KMH"
    /\ (v >= 700 /\ v <= 1000)
       => /\ fstOut.GroundSpeed = v /\ fstOut.IAS = 0
          /\ fstOut.SpeedUnit = "kmh" /\ fstOut.SpeedType = "KMH"
    /\ (v >= 350 /\ v < 700)
       => /\ fstOut.GroundSpeed = v /\ fstOut.IAS = 0
          /\ fstOut.SpeedUnit = "knots" /\ fstOut.SpeedType = "GS"

\* C16: a seven-character speed token above 1000000 is IAS (first three
\* digits) and ground speed in km/h (last four), speed type IAS+KMH; a value
\* of 700 to 1000 is the ground speed in km/h, kept as it is, type KMH; a
\* value of 350 to 699 is the ground speed in knots, type GS.
C16_SpeedClassification ==
    (FstHeadEmitted /\ Len(FstFieldsIn) >= 2 /\ AllDigits(FstFieldsIn[2]))
    => SpeedAsClassified(FstFieldsIn[2], DigitsVal(FstFieldsIn[2]))

\* 2001084 is IAS 200 with 1084 km/h.
C16_Witness ==
    /\ FstHeadEmitted
    /\ Len(FstFieldsIn) >= 2 /\ FstFieldsIn[2] = <<"2", "0", "0", "1", "0", "8", "4">>
    /\ fstOut.IAS = 200 /\ fstOut.GroundSpeed = 1084
    /\ fstOut.SpeedUnit = "kmh" /\ fstOut.SpeedType = "IAS+KMH"

\* The fallback: the ground speed in knots and nothing else.
SpeedIsKnots(v) ==
    /\ fstOut.GroundSpeed = v /\ fstOut.IAS = 0
    /\ fstOut.SpeedUnit = "knots" /\ fstOut.SpeedType = "GS"

\* The speed token is not of the seven-character class and not in 100..1000.
SpeedUnlisted(tok, v) == v > 0 /\ ~(Len(tok) = 7 /\ v > 1000000) /\ ~(v >= 100 /\ v <= 1000)

\* C22 as stated: every positive speed token outside the listed classes is
\* the ground speed in knots.
C22_FallbackAlwaysKnots ==
    (/\ FstHeadEmitted /\ Len(FstFieldsIn) >= 2 /\ AllDigits(FstFieldsIn[2])
     /\ SpeedUnlisted(FstFieldsIn[2], DigitsVal(FstFieldsIn[2])))
    => SpeedIsKnots(DigitsVal(FstFieldsIn[2]))

\* An unlisted token of at most four characters is the ground speed in
\* knots; a longer one gives the IAS from its first three characters, speed
\* type IAS, and no ground speed.
SpeedFallback(tok, v) ==
    IF Len(tok) <= 4 THEN SpeedIsKnots(v)
    ELSE /\ fstOut.IAS = DigitsVal(SubSeq(tok, 1, 3)) /\ fstOut.SpeedType = "IAS"
         /\ fstOut.GroundSpeed = 0 /\ fstOut.SpeedUnit = ""

\* C22, amended: a positive speed token outside the listed classes is the
\* ground speed in knots when it is below 100 or has at most four characters
\* (1001 to 9999); a token above 1000 of five characters or more is split,
\* its first three characters being the IAS.
C22_FallbackByWidth ==
    (/\ FstHeadEmitted /\ Len(FstFieldsIn) >= 2 /\ AllDigits(FstFieldsIn[2])
     /\ SpeedUnlisted(FstFieldsIn[2], DigitsVal(FstFieldsIn[2])))
    => SpeedFallback(FstFieldsIn[2], DigitsVal(FstFieldsIn[2]))

\* 20010 gives IAS 200 and no ground speed.
C22_Witness ==
    /\ FstHeadEmitted
    /\ Len(FstFieldsIn) >= 2 /\ FstFieldsIn[2] = <<"2", "0", "0", "1", "0">>
    /\ fstOut.IAS = 200 /\ fstOut.SpeedType = "IAS"
    /\ fstOut.GroundSpeed = 0 /\ fstOut.SpeedUnit = ""

\* The temperature pattern: M or P, two or three digits, an optional C.
TempBody(t) == IF t[Len(t)] = "C" THEN SubSeq(t, 2, Len(t) - 1) ELSE SubSeq(t, 2, Len(t))

IsTempToken(t) ==
    /\ Len(t) >= 3 /\ t[1] \in {"M", "P"}
    /\ Len(TempBody(t)) \in {2, 3} /\ AllDigits(TempBody(t))

TempValue(t) == IF t[1] = "M" THEN 0 - DigitsVal(TempBody(t)) ELSE DigitsVal(TempBody(t))

\* The fields from the third on that match the temperature pattern.
TempPlaces(f) == { i \in 3..Len(f) : IsTempToken(f[i]) }

NoWind == fstOut.WindSpeed = 0 /\ fstOut.WindDirection = 0

\* The wind of the token w: two digits of speed and three of direction when
\* the direction is at most 360, else three digits of speed (100 or more)
\* and three of direction, else none.
WindOf(w) ==
    IF Len(w) >= 5 /\ AllDigits(SubSeq(w, 1, 5)) /\ DigitsVal(SubSeq(w, 3, 5)) <= 360
    THEN /\ fstOut.WindSpeed = DigitsVal(SubSeq(w, 1, 2))
         /\ fstOut.WindDirection = DigitsVal(SubSeq(w, 3, 5))
    ELSE IF /\ Len(w) >= 6 /\ AllDigits(SubSeq(w, 1, 6))
            /\ DigitsVal(SubSeq(w, 1, 3)) >= 100 /\ DigitsVal(SubSeq(w, 4, 6)) <= 360
    THEN /\ fstOut.WindSpeed = DigitsVal(SubSeq(w, 1, 3))
         /\ fstOut.WindDirection = DigitsVal(SubSeq(w, 4, 6))
    ELSE NoWind

\* The temperature is that of the field i, the wind that of the field after.
TempAndWindAt(f, i) ==
    /\ fstOut.Temperature = TempValue(f[i])
    /\ IF i + 1 <= Len(f) THEN WindOf(f[i + 1]) ELSE NoWind

TempAndWindOf(f) ==
    IF TempPlaces(f) = {} THEN fstOut.Temperature = 0 /\ NoWind
    ELSE TempAndWindAt(f, SetMin(TempPlaces(f)))

\* C23: the temperature is that of the first field, from the third on, that
\* matches the temperature pattern (M negative, P positive); the wind is read
\* from the field right after it and from no other; later temperature-like
\* fields are ignored; with no matching field temperature and wind are unset.
C23_TemperatureAndWind == FstHeadEmitted => TempAndWindOf(FstFieldsIn)

\* "M54C 62354 P15C 11090": -54 degrees and wind 62 from 354; the second
\* temperature and the token after it are ignored.
C23_Witness ==
    /\ FstHeadEmitted
    /\ FstFieldsIn = << <<"3", "3", "0">>, <<"8", "5", "4">>, <<"M", "5", "4", "C">>, <<"6", "2", "3", "5", "4">>,
                        <<"P", "1", "5", "C">>, <<"1", "1", "0", "9", "0">> >>
    /\ fstOut.Temperature = 0 - 54
    /\ fstOut.WindSpeed = 62 /\ fstOut.WindDirection = 354

\* The token after the speed token is a numeral of digits.
NextIsNumber(f) == Len(f) >= 3 /\ AllDigits(f[3])

\* C17 as stated, for an IAS of v and the fields f: a next token of 100 to
\* 999 is the ground speed in knots, speed type IAS+GS.
TwoFieldAlwaysKnots(f, v) ==
    /\ fstOut.IAS = v
    /\ IF NextIsNumber(f) /\ DigitsVal(f[3]) >= 100 /\ DigitsVal(f[3]) < 1000
       THEN /\ fstOut.GroundSpeed = DigitsVal(f[3])
            /\ fstOut.SpeedUnit = "knots" /\ fstOut.SpeedType = "IAS+GS"
       ELSE /\ fstOut.GroundSpeed = 0
            /\ fstOut.SpeedUnit = "" /\ fstOut.SpeedType = "IAS"

C17_NextAlwaysKnots ==
    (/\ FstHeadEmitted /\ Len(FstFieldsIn) >= 2 /\ AllDigits(FstFieldsIn[2])
     /\ DigitsVal(FstFieldsIn[2]) >= 100 /\ DigitsVal(FstFieldsIn[2]) < 350)
    => TwoFieldAlwaysKnots(FstFieldsIn, DigitsVal(FstFieldsIn[2]))

\* The same with a next token of 700 to 999 taken for km/h.
TwoFieldKnotsOrKmh(f, v) ==
    /\ fstOut.IAS = v
    /\ IF NextIsNumber(f) /\ DigitsVal(f[3]) >= 100 /\ DigitsVal(f[3]) < 700
       THEN /\ fstOut.GroundSpeed = DigitsVal(f[3])
            /\ fstOut.SpeedUnit = "knots" /\ fstOut.SpeedType = "IAS+GS"
       ELSE IF NextIsNumber(f) /\ DigitsVal(f[3]) >= 700 /\ DigitsVal(f[3]) < 1000
       THEN /\ fstOut.GroundSpeed = DigitsVal(f[3])
            /\ fstOut.SpeedUnit = "kmh" /\ fstOut.SpeedType = "IAS+KMH"
       ELSE /\ fstOut.GroundSpeed = 0
            /\ fstOut.SpeedUnit = "" /\ fstOut.SpeedType = "IAS"

\* C17, amended: a speed token of 100 to 349 is the IAS; a next token of 100
\* to 699 is the ground speed in knots (IAS+GS), a next token of 700 to 999 is
\* the ground speed in km/h (IAS+KMH); otherwise only the IAS is set.
C17_NextKnotsOrKmh ==
    (/\ FstHeadEmitted /\ Len(FstFieldsIn) >= 2 /\ AllDigits(FstFieldsIn[2])
     /\ DigitsVal(FstFieldsIn[2]) >= 100 /\ DigitsVal(FstFieldsIn[2]) < 350)
    => TwoFieldKnotsOrKmh(FstFieldsIn, DigitsVal(FstFieldsIn[2]))

\* "235 854": IAS 235 with a ground speed of 854 km/h.
C17_Witness ==
    /\ FstHeadEmitted
    /\ Len(FstFieldsIn) >= 3
    /\ FstFieldsIn[2] = <<"2", "3", "5">> /\ FstFieldsIn[3] = <<"8", "5", "4">>
    /\ fstOut.IAS = 235 /\ fstOut.GroundSpeed = 854
    /\ fstOut.SpeedUnit = "kmh" /\ fstOut.SpeedType = "IAS+KMH"

\* Some format matches the text Parse hands to the compiler.
FstHeaderMatches(t) ==
    \E k \in 1..Len(FstFormats) : \E i \in 1..Len(t) : FstMatchesAt(FstFormats[k], t, i)

\* A damaged report has six latitude digits when its 20th character is a
\* digit, five otherwise; w is that width.
CorruptLatWidth == IF fstMsg.Text[20] \in Digit THEN 6 ELSE 5

CorruptLat(w) == SubSeq(fstMsg.Text, 15, 14 + w)

CorruptLon(w) == SubSeq(fstMsg.Text, 16 + w, IF w = 6 THEN 28 ELSE 25)

CorruptParts(w) ==
    Fields(SubSeq(fstMsg.Text, IF w = 6 THEN 29 ELSE 26, Len(fstMsg.Text)))

\* The Result of a damaged report with latitude lat, longitude lon and the
\* fields f: what is sound is filled in, what is damaged is zero.
PartialAsExpected(lat, lon, f) ==
    /\ fstOut.Sequence = <<"0", "1">>
    /\ fstOut.Origin = <<"E", "G", "L", "L">> /\ fstOut.Destination = <<"W", "S", "S", "S">>
    /\ fstOut.Latitude = (IF fstMsg.Text[14] = "S" THEN 0 - 1 ELSE 1) * parseCoord(lat)
    /\ fstOut.Longitude = (IF fstMsg.Text[15 + Len(lat)] = "W" THEN 0 - 1 ELSE 1) * parseCoord(lon)
    /\ lat \in { <<"9", "5", "7", "3", "1", "5">>, <<"5", "1", "9", "9", "9">> } => fstOut.Latitude = 0
    /\ lon \in { <<"2", "0", "0", "9", "2", "7", "5">>, <<"0", "0", "9", "9", "9">> } => fstOut.Longitude = 0
    /\ lat = <<"5", "1", "4", "2", "0">> => fstOut.Latitude * 10 = (IF fstMsg.Text[14] = "S" THEN 0 - 517 ELSE 517) * CoordScale
    /\ lon = <<"0", "2", "4", "9", "2", "7", "5">> => fstOut.Longitude = 24 * CoordScale + 9275 * 3
    /\ fstOut.FlightLevel = IF f[1] = <<"3", "3", "0">> THEN 330 ELSE 0
    /\ IF Len(f) >= 2 /\ f[2] = <<"8", "5", "4">>
       THEN fstOut.GroundSpeed = 854 /\ fstOut.SpeedUnit = "kmh" /\ fstOut.SpeedType = "KMH"
       ELSE fstOut.GroundSpeed = 0 /\ fstOut.SpeedUnit = "" /\ fstOut.SpeedType = ""
    /\ fstOut.IAS = 0 /\ fstOut.TAS = 0
    /\ fstOut.Temperature = IF Len(f) >= 4 /\ f[4] = <<"M", "5", "4", "C">> THEN 0 - 54 ELSE 0
    /\ IF Len(f) >= 5 /\ f[4] = <<"M", "5", "4", "C">> /\ f[5] = <<"6", "2", "3", "5", "4">>
       THEN fstOut.WindSpeed = 62 /\ fstOut.WindDirection = 354
       ELSE fstOut.WindSpeed = 0 /\ fstOut.WindDirection = 0

\* C19: whenever a header format matches the text, Parse returns a Result
\* with sequence, origin and destination; a coordinate parseCoord rejects, a
\* flight level outside 0..600 and a missing or non-numeric speed,
\* temperature or wind token leave their fields at zero, and the sound
\* fields are filled in all the same.
C19_PartialResult ==
    (fstOut # Unparsed /\ fstMsg.Text # <<>>) =>
        /\ FstHeaderMatches(FstText(fstMsg.Text)) <=> fstOut # Nil
        /\ fstOut # Nil =>
              /\ Len(fstOut.Sequence) = 2
              /\ IsICAO(fstOut.Origin) /\ IsICAO(fstOut.Destination)
        /\ (fstOut # Nil /\ fstMsg.Text \in CorruptTexts) =>
              PartialAsExpected(CorruptLat(CorruptLatWidth), CorruptLon(CorruptLatWidth),
                                CorruptParts(CorruptLatWidth))

\* Latitude 51999 (99.9 minutes) and flight level 999 are rejected; the
\* longitude, the speed, the temperature and the wind are filled in.
C19_Witness ==
    /\ FstEmitted
    /\ fstMsg.Text = CorruptHead \o <<"N", "5", "1", "9", "9", "9", "W", "0", "0", "3", "1", "2">>
                        \o <<"9", "9", "9", " ", "8", "5", "4", " ", "2", "4", "2", " ", "M", "5", "4", "C", " ", "6", "2", "3", "5", "4">>
    /\ fstOut.Latitude = 0 /\ fstOut.FlightLevel = 0
    /\ fstOut.Longitude = 0 - 312 * 50
    /\ fstOut.GroundSpeed = 854 /\ fstOut.Temperature = 0 - 54
    /\ fstOut.WindSpeed = 62 /\ fstOut.WindDirection = 354

\* C24 as stated: QuickCheck is true of every text for which Parse returns a
\* Result.
C24_QuickCheckSound == FstEmitted => FstQuickCheck(fstMsg.Text)

\* What holds: QuickCheck is true of a decodable text that starts with FST
\* once trimmed, or whose Result has the sequence 01 or 02.
QuickCheckSoundUnprefixed ==
    (/\ FstEmitted
     /\ \/ HasPrefix(TrimSpace(fstMsg.Text), <<"F", "S", "T">>)
        \/ fstOut.Sequence \in { <<"0", "1">>, <<"0", "2">> })
    => FstQuickCheck(fstMsg.Text)

\* A report behind a prefix with the sequence 03 is decoded by Parse and
\* refused by QuickCheck.
PrefixedRefused ==
    /\ FstEmitted
    /\ fstMsg.Text = TxFstPrefixed
    /\ fstOut.Sequence = <<"0", "3">> /\ fstOut.Origin = <<"E", "G", "L", "L">>
    /\ ~FstQuickCheck(fstMsg.Text)

\* The formats of the list order that match the text t somewhere.
MatchingIn(order, t) ==
    { k \in 1..Len(order) : \E i \in 1..Len(t) : FstMatchesAt(order[k], t, i) }

\* The Result is the one decoded with format f at its leftmost match in t:
\* the rest of the line and the two coordinate groups are that format's.
DecodedWith(f, t, i) ==
    /\ fstOut.RawData = FstCaptures(f, t, i).rest
    /\ fstOut.Longitude = (IF FstCaptures(f, t, i).lon_dir = "W" THEN 0 - 1 ELSE 1)
                              * parseCoord(FstCaptures(f, t, i).lon)
    /\ fstOut.Latitude = (IF FstCaptures(f, t, i).lat_dir = "S" THEN 0 - 1 ELSE 1)
                             * parseCoord(FstCaptures(f, t, i).lat)

DecodedWithFirstOf(order, t) ==
    MatchingIn(order, t) # {} =>
        DecodedWith(order[SetMin(MatchingIn(order, t))], t,
                    SetMin({ i \in 1..Len(t) :
                                FstMatchesAt(order[SetMin(MatchingIn(order, t))], t, i) }))

\* C20 as stated: the variants are tried in the order 5-digit, 6-digit,
\* 7-digit longitude, and the first that matches decodes the text.
C20_NarrowestFirst ==
    FstEmitted => DecodedWithFirstOf(Formats5First, FstText(fstMsg.Text))

\* C20, amended: the variants are tried in the order 7-digit, 6-digit,
\* 5-digit longitude, and the first that matches decodes the text.
C20_WidestFirst ==
    FstEmitted => DecodedWithFirstOf(Formats7First, FstText(fstMsg.Text))

\* A text that the 7-digit and the 6-digit variant both match is decoded
\* with seven longitude digits: 24.9275 degrees east, flight level 330.
C20_Witness ==
    /\ FstEmitted
    /\ MatchingIn(Formats7First, FstText(fstMsg.Text)) = {1, 2}
    /\ fstOut.Longitude = 24 * CoordScale + 9275 * 3
    /\ fstOut.FlightLevel = 330

\* A Result was emitted for a text that starts with SixLonHead, goes on with
\* a longitude letter (21st character) and six digits, and has a rest.
SixLonShape ==
    /\ FstEmitted
    /\ HasPrefix(fstMsg.Text, SixLonHead)
    /\ Len(FstText(fstMsg.Text)) >= 28
    /\ FstText(fstMsg.Text)[21] \in LonDir
    /\ AllDigits(SubSeq(FstText(fstMsg.Text), 22, 27))

\* The longitude is decoded from the characters 22..b of the text and the
\* fields from the rest of the line after them.
LonReadUpTo(t, b) ==
    /\ fstOut.Longitude = (IF t[21] = "W" THEN 0 - 1 ELSE 1) * parseCoord(SubSeq(t, 22, b))
    /\ fstOut.RawData = SubSeq(t, b + 1, LineEnd(t, b + 1))

\* The six digits are followed by a digit and one more character of the line.
SeventhDigit(t) == Len(t) >= 29 /\ t[28] \in Digit /\ t[29] # "\n"

\* C26 as stated: six longitude digits followed by the rest are decoded as a
\* six-digit longitude, whatever the rest begins with.
C26_SixDigitsRead == SixLonShape => LonReadUpTo(FstText(fstMsg.Text), 27)

\* C26, amended: when the six digits are followed by a digit and one more
\* character of the line, that digit is the seventh digit of the longitude;
\* otherwise the longitude is decoded from the six digits.
C26_SeventhDigitAbsorbed ==
    SixLonShape =>
        IF SeventhDigit(FstText(fstMsg.Text))
        THEN LonReadUpTo(FstText(fstMsg.Text), 28)
        ELSE LonReadUpTo(FstText(fstMsg.Text), 27)

\* E024927 followed by 330 854: longitude 24.9273 east and flight level 30.
C26_Witness ==
    /\ SixLonShape
    /\ SubSeq(fstMsg.Text, 21, Len(fstMsg.Text)) = <<"E", "0", "2", "4", "9", "2", "7", "3", "3", "0", " ", "8", "5", "4">>
    /\ fstOut.Longitude = 24 * CoordScale + 9273 * 3
    /\ fstOut.FlightLevel = 30

\* E024927 followed by a space: longitude 2 degrees 49.27 minutes east and
\* flight level 330.
SixDigitsBeforeSpace ==
    /\ SixLonShape
    /\ SubSeq(fstMsg.Text, 21, Len(fstMsg.Text)) = <<"E", "0", "2", "4", "9", "2", "7", " ", "3", "3", "0", " ", "8", "5", "4">>
    /\ fstOut.Longitude = 2 * CoordScale + 4927 * 5
    /\ fstOut.FlightLevel = 330

\* The position of the Result is within the poles and the date line.
PositionInRange ==
    /\ fstOut.Latitude >= 0 - 90 * CoordScale /\ fstOut.Latitude <= 90 * CoordScale
    /\ fstOut.Longitude >= 0 - 180 * CoordScale /\ fstOut.Longitude <= 180 * CoordScale

\* The signs of the position follow the hemisphere letters of the captures c.
SignsFollow(c) ==
    /\ fstOut.Latitude < 0 <=> (c.lat_dir = "S" /\ parseCoord(c.lat) # 0)
    /\ fstOut.Longitude < 0 <=> (c.lon_dir = "W" /\ parseCoord(c.lon) # 0)

\* C27 as stated: every Result has a latitude in [-90, 90] and a longitude
\* in [-180, 180], negative exactly for S and W with a non-zero magnitude.
C27_ValidPosition ==
    FstEmitted
    => PositionInRange /\ SignsFollow(CompilerParse(FstText(fstMsg.Text)).Captures)

\* What holds: the signs follow the letters, the latitude is below 100
\* degrees and the longitude below 181 degrees in magnitude.
PositionSignsAndWidth ==
    FstEmitted
    => /\ SignsFollow(CompilerParse(FstText(fstMsg.Text)).Captures)
       /\ fstOut.Latitude > 0 - 100 * CoordScale /\ fstOut.Latitude < 100 * CoordScale
       /\ fstOut.Longitude > 0 - 181 * CoordScale /\ fstOut.Longitude < 181 * CoordScale

\* N915900 is decoded as 91 degrees 59 minutes north.
LatitudeBeyondPole ==
    /\ FstEmitted
    /\ fstMsg.Text = CorruptHead \o <<"N", "9", "1", "5", "9", "0", "0", "E", "0", "2", "4", "9", "2", "7", "5", " ", "3", "3", "0", " ", "4", "8", "5">>
    /\ fstOut.Latitude = 91 * CoordScale + 5900 * 5
    /\ fstOut.Longitude = 24 * CoordScale + 9275 * 3

\* W1809999 is decoded as 180.9999 degrees west.
LongitudeBeyondDateLine ==
    /\ FstEmitted
    /\ fstMsg.Text = CorruptHead \o <<"S", "9", "0", "0", "0", "0", "1", "W", "1", "8", "0", "9", "9", "9", "9", " ", "3", "3", "0", " ", "4", "8", "5">>
    /\ fstOut.Latitude = 0 - (90 * CoordScale + 5)
    /\ fstOut.Longitude = 0 - (180 * CoordScale + 9999 * 3)

-----------------------------------------------------------------------------
(* parseCoord on one digit group (SpecCoord)                                *)

MaxDeg3 == 200

\* The samples of the minute decimals (TT, D) and of the degree decimals.
HundredthsSample == {0, 1, 15, 40, 99}
FractionSample == {0, 1, 5000, 9275, 9999}

\* DDMMD, DDMMTT and DDDFFFF groups as the three patterns capture them: every
\* two-digit degree and minute value, and the degrees 0..MaxDeg3 of the
\* seven-digit form.
CoordGroups5 ==
    { Pad(Decimal(dd), 2) \o Pad(Decimal(mm), 2) \o Decimal(t) :
        dd \in 0..99, mm \in 0..99, t \in {0, 5, 9} }

CoordGroups6 ==
    { Pad(Decimal(dd), 2) \o Pad(Decimal(mm), 2) \o Pad(Decimal(tt), 2) :
        dd \in 0..99, mm \in 0..99, tt \in HundredthsSample }

CoordGroups7 ==
    { Pad(Decimal(ddd), 3) \o Pad(Decimal(f), 4) : ddd \in 0..MaxDeg3, f \in FractionSample }

\* Strings of other lengths, and strings that are not all digits.
CoordOdd ==
    { <<>>, <<"1", "2", "3", "4">>, <<"1", "2", "3", "4", "5", "6", "7", "8">>,
      <<"1", "2", "A", "4", "5">>, <<"4", "5", "2", "1", "4", "X">>,
      <<"X", "2", "4", "9", "2", "7", "5">>, <<"0", "2", "4", "9", "2", "7", "X">>,
      <<"-", "1", "2", "3", "4", "5">> }

CoordInputs == CoordGroups5 \cup CoordGroups6 \cup CoordGroups7 \cup CoordOdd

NoCoord == [done |-> FALSE, val |-> 0]

InitCoord ==
    /\ coordIn \in CoordInputs
    /\ coordOut = NoCoord
    /\ RegOff /\ DispOff /\ OnceOff /\ L80Off /\ FstOff /\ L16Off

\* parseCoord(coordIn), in 1/CoordScale degree.
CoordRun ==
    /\ ~coordOut.done
    /\ coordOut' = [done |-> TRUE, val |-> parseCoord(coordIn)]
    /\ UNCHANGED <<coordIn, regVars, dispVars, onceVars, l80Vars, fstVars, l16Vars>>

NextCoord == CoordRun

SpecCoord == InitCoord /\ [][NextCoord]_vars

\* parseCoord has returned for a group of n digits.
CoordDone(n) == coordOut.done /\ Len(coordIn) = n /\ AllDigits(coordIn)

\* The value of the digits a..b (1-based) of the group.
CoordDigits(a, b) == DigitsVal(SubSeq(coordIn, a, b))

\* C12 as stated: every six-digit group whose minute whole is 60 or more
\* gives DD + XXXX/10000 degrees.
C12_OverflowAlwaysDecimal ==
    (CoordDone(6) /\ CoordDigits(3, 4) >= 60)
    => coordOut.val = CoordDigits(1, 2) * CoordScale + CoordDigits(3, 6) * 3

\* C12, amended: a six-digit group whose minute whole is 60 or more gives
\* DD + XXXX/10000 degrees when DD is at most 90, and 0 when DD is 91..99.
C12_OverflowDecimalUpTo90 ==
    (CoordDone(6) /\ CoordDigits(3, 4) >= 60)
    => coordOut.val = IF CoordDigits(1, 2) <= 90
                      THEN CoordDigits(1, 2) * CoordScale + CoordDigits(3, 6) * 3
                      ELSE 0

\* 467315 gives 46.7315 degrees.
C12_Witness ==
    /\ coordOut.done
    /\ coordIn = <<"4", "6", "7", "3", "1", "5">>
    /\ coordOut.val = 46 * CoordScale + 7315 * 3

\* C13 as stated: every six-digit group DDMMTT whose minute whole is below 60
\* gives DD + (MM*100 + TT)/6000 degrees, for every DD including 00.
C13_MinutesEveryDegree ==
    (CoordDone(6) /\ CoordDigits(3, 4) < 60)
    => coordOut.val = CoordDigits(1, 2) * CoordScale + CoordDigits(3, 6) * 5

\* What parseCoord does with such a group: the DDMMTT reading for DD of 01 to
\* 99, and 0 for DD = 00 whatever the minutes are.
Coord6MinutesFromDegreeOne ==
    (CoordDone(6) /\ CoordDigits(3, 4) < 60)
    => coordOut.val = IF CoordDigits(1, 2) = 0 THEN 0
                      ELSE CoordDigits(1, 2) * CoordScale + CoordDigits(3, 6) * 5

\* C14: a five-digit group DDMMD gives DD + (MM + D/10)/60 degrees when the
\* minutes MM.D are below 60, and 0 when they are 60 or more.
C14_FiveDigit ==
    CoordDone(5)
    => coordOut.val = IF CoordDigits(3, 5) < 600
                      THEN CoordDigits(1, 2) * CoordScale + CoordDigits(3, 5) * 50
                      ELSE 0

\* 51420 gives 51 degrees 42.0 minutes, 51.7 degrees.
C14_Witness ==
    /\ coordOut.done
    /\ coordIn = <<"5", "1", "4", "2", "0">>
    /\ coordOut.val * 10 = 517 * CoordScale

C21_ThreeDigitDegrees ==
    (/\ CoordDone(6)
     /\ CoordDigits(1, 3) > 90 /\ CoordDigits(1, 3) <= 180
     /\ CoordDigits(4, 6) < 600)
    => coordOut.val = CoordDigits(1, 3) * CoordScale + CoordDigits(4, 6) * 50

\* What parseCoord does with six digits: the result is 0, the DDMMTT reading
\* or the DD.DDDD reading, each with the first two digits as the degrees, so
\* it stays below 100 degrees; the DDDMMD reading is never taken.
Coord6TwoDigitDegreesOnly ==
    CoordDone(6)
    => /\ coordOut.val \in { 0,
                              CoordDigits(1, 2) * CoordScale + CoordDigits(3, 6) * 5,
                              CoordDigits(1, 2) * CoordScale + CoordDigits(3, 6) * 3 }
       /\ coordOut.val < 100 * CoordScale

-----------------------------------------------------------------------------
(* Label 16 formats (package label16) under the compiler's Parse (SpecL16) *)

Lower == {"a", "b", "c", "d", "e", "f", "g", "h", "i", "j", "k", "l", "m",
          "n", "o", "p", "q", "r", "s", "t", "u", "v", "w", "x", "y", "z"}

ReSpace == {" ", "\t", "\n", "\f", "\r"}            \* \s
Word == Digit \cup Upper \cup Lower \cup {"_"}       \* \w
DigitDot == Digit \cup {"."}                         \* [\d.]
UpperDigit == Upper \cup Digit                       \* [A-Z0-9]

\* One piece of a pattern: min to max characters of the class cls (min or
\* more when inf), inside the capture group grp ("" outside every group).
Rep(cls, min, max, grp) ==
    [cls |-> cls, min |-> min, max |-> max, inf |-> FALSE, grp |-> grp]
Plus(cls, grp) == [cls |-> cls, min |-> 1, max |-> 1, inf |-> TRUE, grp |-> grp]
Star(cls, grp) == [cls |-> cls, min |-> 0, max |-> 0, inf |-> TRUE, grp |-> grp]
One(cls, grp) == Rep(cls, 1, 1, grp)
Lit(str) == [k \in 1..Len(str) |-> One({str[k]}, "")]
Comma == Lit(<<",">>)

\* (?P<lat_dir>[NS])\s*(?P<lat>[\d.]+) sep (?P<lon_dir>[EW])\s*(?P<lon>[\d.]+)
LatLon(sep) ==
    << One(LatDir, "lat_dir"), Star(ReSpace, ""), Plus(DigitDot, "lat"), sep,
       One(LonDir, "lon_dir"), Star(ReSpace, ""), Plus(DigitDot, "lon") >>

\* ,(?P<altitude>\d+),\s*(?P<ground_speed>\d+),(?P<eta>\d+),\s*(?P<track>\d+)
WaypointTail ==
    Comma \o <<Plus(Digit, "altitude")>> \o Comma
    \o <<Star(ReSpace, ""), Plus(Digit, "ground_speed")>> \o Comma
    \o <<Plus(Digit, "eta")>> \o Comma \o <<Star(ReSpace, ""), Plus(Digit, "track")>>

\* The Label 16 formats, in declaration order.  Every pattern starts with ^,
\* so a format matches at the start of the text or not at all; no pattern
\* ends with $.
L16Formats ==
    << [Name |-> "csv_position",
        Pattern |-> <<Rep(Digit, 6, 6, "time")>> \o Comma
            \o <<Rep({"+", "M"}, 0, 1, "altitude"), Plus(Digit, "altitude")>> \o Comma
            \o <<Plus(Digit, "speed")>> \o Comma
            \o <<Star(ReSpace, ""), Plus(Digit, "track")>> \o Comma
            \o LatLon(Plus({","} \cup ReSpace, "")),
        Fields |-> <<"time", "altitude", "speed", "track", "lat_dir", "lat", "lon_dir",
                     "lon">>],
       [Name |-> "csv_position_no_alt",
        Pattern |-> <<Rep(Digit, 6, 6, "time")>> \o Comma \o Comma
            \o <<Plus(Digit, "speed")>> \o Comma
            \o <<Star(ReSpace, ""), Plus(Digit, "track")>> \o Comma
            \o LatLon(Plus({","} \cup ReSpace, "")),
        Fields |-> <<"time", "speed", "track", "lat_dir", "lat", "lon_dir", "lon">>],
       [Name |-> "csv_position_extended",
        Pattern |-> <<Rep(Digit, 6, 6, "time")>> \o Comma
            \o <<Rep({"+", "M"}, 0, 1, "altitude"), Plus(Digit, "altitude")>> \o Comma
            \o <<Plus(Digit, "speed")>> \o Comma
            \o <<Plus(Digit, "track")>> \o Comma
            \o LatLon(One({","}, "")) \o Comma \o <<Plus(Word, "flight")>>,
        Fields |-> <<"time", "altitude", "speed", "track", "lat_dir", "lat", "lon_dir",
                     "lon", "flight">>],
       [Name |-> "waypoint_position_prefixed",
        Pattern |-> Lit(<<"M">>) \o <<Rep(Digit, 2, 2, "msg_seq")>> \o Lit(<<"A">>)
            \o <<Rep(UpperDigit, 2, 2, "prefix_airline"),
                 Rep(UpperDigit, 4, 4, "prefix_flight"),
                 One(Upper, "waypoint"), Star(UpperDigit, "waypoint"),
                 Star(ReSpace, "")>> \o Comma
            \o LatLon(One({","}, "")) \o WaypointTail,
        Fields |-> <<"msg_seq", "prefix_airline", "prefix_flight", "waypoint", "lat_dir",
                     "lat", "lon_dir", "lon", "altitude", "ground_speed", "eta",
                     "track">>],
       [Name |-> "waypoint_position",
        Pattern |-> <<Rep(UpperDigit, 2, 8, "waypoint"), Star(ReSpace, "")>> \o Comma
            \o LatLon(One({","}, "")) \o WaypointTail,
        Fields |-> <<"waypoint", "lat_dir", "lat", "lon_dir", "lon", "altitude",
                     "ground_speed", "eta", "track">>],
       [Name |-> "autpos",
        Pattern |-> <<Rep(Digit, 6, 6, "time")>>
            \o Lit(<<"/", "A", "U", "T", "P", "O", "S", "/", "L", "L", "D">>)
            \o <<Plus(ReSpace, ""), One(LatDir, "lat_dir"), Rep(Digit, 6, 6, "lat"),
                 Plus(ReSpace, ""), One(LonDir, "lon_dir"), Rep(Digit, 7, 7, "lon")>>,
        Fields |-> <<"time", "lat_dir", "lat", "lon_dir", "lon">>] >>

\* The number of characters of s, from position i on, that are in cls.
RECURSIVE Run(_, _, _)
Run(cls, s, i) == IF i <= Len(s) /\ s[i] \in cls THEN 1 + Run(cls, s, i + 1) ELSE 0

\* The most characters the piece a can take at position i, given the run r.
MaxTakeOf(a, r) == IF a.inf \/ r <= a.max THEN r ELSE a.max
MaxTake(a, s, i) == MaxTakeOf(a, Run(a.cls, s, i))

\* The pieces k.. of the pattern match s from position i on.
RECURSIVE MatchesFrom(_, _, _, _)
MatchesFrom(pat, k, s, i) ==
    \/ k > Len(pat)
    \/ \E n \in pat[k].min..MaxTake(pat[k], s, i) : MatchesFrom(pat, k + 1, s, i + n)

SetMax(S) == CHOOSE x \in S : \A y \in S : x >= y

\* What each piece takes in the match the regexp engine reports: every
\* quantifier is greedy, so a piece takes the most characters that leave the
\* rest of the pattern matching.
RECURSIVE Takes(_, _, _, _)
TakesWith(pat, k, s, i, n) == <<n>> \o Takes(pat, k + 1, s, i + n)
Takes(pat, k, s, i) ==
    IF k > Len(pat) THEN <<>>
    ELSE TakesWith(pat, k, s, i,
             SetMax({n \in pat[k].min..MaxTake(pat[k], s, i) :
                        MatchesFrom(pat, k + 1, s, i + n)}))

\* The text captured by the group grp.
RECURSIVE CaptureFrom(_, _, _, _, _, _)
CaptureFrom(pat, takes, k, s, i, grp) ==
    IF k > Len(pat) THEN <<>>
    ELSE (IF pat[k].grp = grp THEN SubSeq(s, i, i + takes[k] - 1) ELSE <<>>)
         \o CaptureFrom(pat, takes, k + 1, s, i + takes[k], grp)

L16FormatMatches(f, text) == MatchesFrom(f.Pattern, 1, text, 1)

L16Captures(f, text, takes) ==
    [g \in {f.Fields[k] : k \in 1..Len(f.Fields)} |->
        CaptureFrom(f.Pattern, takes, 1, text, 1, g)]

\* One format against the text.
L16MatchFormat(f, text) ==
    IF L16FormatMatches(f, text)
    THEN [FormatName |-> f.Name,
          Captures |-> L16Captures(f, text, Takes(f.Pattern, 1, text, 1))]
    ELSE NoMatch

\* Compiler.Parse over a format list: the first format, in declaration
\* order, that matches.
RECURSIVE L16ParseFrom(_, _, _)
L16ParseFrom(formats, k, text) ==
    IF k > Len(formats) THEN NoMatch
    ELSE IF L16FormatMatches(formats[k], text) THEN L16MatchFormat(formats[k], text)
    ELSE L16ParseFrom(formats, k + 1, text)

L16Parse(text) == L16ParseFrom(L16Formats, 1, text)

\* ---- inputs ----

CsvTimes == { <<"2", "2", "1", "9", "4", "2">>, <<"2", "2", "1", "9", "4">> }
CsvAlts == { <<"3", "5", "9", "8", "9">>, <<"+", "2", "0", "9", "9", "5">>, <<"M", "0", "1", "0", "0">>, <<>> }
CsvTracks == { <<" ", "1", "1", "8">>, <<"9", "1", "6", "0">>, <<" ", " ", "8", "4">> }
CsvCoords ==
    { <<"N", " ", "4", "7", ".", "9", "8", "3", " ", "E", " ", " ", "9", ".", "6", "2", "6">>,
      <<"N", " ", "5", "0", ".", "0", "5", "4", "7", ",", "E", " ", "8", ".", "2", "4", "0", "8">>,
      <<"N", "4", "6", ".", "7", "5", "3", ",", " ", "W", "1", "2", "2", ".", "3", "5", "6">>,
      <<"N", " ", "4", "7", ".", "9", "8", "3", "E", "9", ".", "6", "2", "6">> }
CsvTails ==
    { <<>>,
      <<",", "S", "X", "S", "6", "7", "A", " ", " ", ",", "5", ",", "7", ",", "4", ",", "9", "2", "5", "7", "6", "0", ",", "/", ",">>,
      <<",">>,
      <<",", " ", "S", "X", "S", "6", "7", "A">>,
      <<",", "_", "x", "9">> }

CsvTexts ==
    { t \o <<",">> \o a \o <<",">> \o <<"2", "3", "4", "6">> \o <<",">> \o tr \o <<",">> \o c \o x :
        t \in CsvTimes, a \in CsvAlts, tr \in CsvTracks, c \in CsvCoords,
        x \in CsvTails }

WptPrefixes == { <<>>, <<"M", "4", "7", "A", "Q", "R", "8", "4", "1", "6">>, <<"M", "4", "A", "Q", "R", "8", "4", "1", "6">> }
Waypoints ==
    { <<"N", "U", "P", "N", "I">>,
      <<"B", "E", "G", "L", "A">>,
      <<"S", "1", "5", "E", "0", "9", "0">>,
      <<"1", "0", "0", "0", "0">>,
      <<"B">>,
      <<"A", "B", "C", "D", "E", "F", "G", "H", "I">> }
WptSeps == { <<" ", " ", ",">>, <<",">> }
WptRests ==
    { <<"N", " ", "3", "4", ".", "9", "0", "1", ",", "E", " ", "1", "0", "0", ".", "5", "9", "5", ",", "4", "1", "0", "9", "8", ",", "0", "4", "7", "7", ",", "2", "0", "3", "3", ",", "0", "4", "2", "\\", "T", "S", "1", "8", "0", "2", "1", "9", ",", "3", "1", "1", "2", "2", "5">>,
      <<"N", " ", "4", "7", ".", "5", "5", "5", ",", "E", " ", "1", "8", ".", "0", "2", "8", ",", "4", "0", "0", "2", "5", ",", "4", "9", "0", ",", "1", "9", "3", "4", ",", "0", "3", "0">>,
      <<"N", " ", "4", "7", ".", "5", "5", "5", ",", "E", " ", "1", "8", ".", "0", "2", "8", ",", "4", "0", "0", "2", "5", ",", "4", "9", "0", ",", "1", "9", "3", "4">> }

WaypointTexts ==
    { p \o w \o s \o r : p \in WptPrefixes, w \in Waypoints, s \in WptSeps,
                          r \in WptRests }

AutposTexts ==
    { <<"0", "3", "5", "2", "3", "4", "/", "A", "U", "T", "P", "O", "S", "/", "L", "L", "D", " ", "N", "4", "4", "0", "8", "5", "3", " ", "W", "0", "9", "1", "5", "2", "3", "9">>,
      <<"0", "3", "5", "2", "3", "4", "/", "A", "U", "T", "P", "O", "S", "/", "L", "L", "D", " ", " ", "N", "4", "4", "0", "8", "5", "3", " ", " ", "W", "0", "9", "1", "5", "2", "3", "9">>,
      <<"0", "3", "5", "2", "3", "4", "/", "A", "U", "T", "P", "O", "S", "/", "L", "L", "D", " ", "N", "4", "4", "0", "8", "5", "3", " ", "W", "0", "9", "1", "5", "2", "3">>,
      <<"0", "3", "5", "2", "3", "4", "/", "A", "U", "T", "P", "O", "S", "/", "L", "L", "D", "N", "4", "4", "0", "8", "5", "3", " ", "W", "0", "9", "1", "5", "2", "3", "9">> }

L16Texts == CsvTexts \cup WaypointTexts \cup AutposTexts \cup {<<>>, TxPos}

NoL16 == [done |-> FALSE, m |-> NoMatch]

InitL16 ==
    /\ l16In \in L16Texts
    /\ l16Out = NoL16
    /\ RegOff /\ DispOff /\ OnceOff /\ L80Off /\ FstOff /\ CoordOff

\* compiler.Parse(l16In) over the Label 16 formats.
L16Run ==
    /\ ~l16Out.done
    /\ l16Out' = [done |-> TRUE, m |-> L16Parse(l16In)]
    /\ UNCHANGED <<l16In, regVars, dispVars, onceVars, l80Vars, fstVars, coordVars>>

NextL16 == L16Run

SpecL16 == InitL16 /\ [][NextL16]_vars

L16Returned(name) == l16Out.done /\ l16Out.m.FormatName = name

\* The text matches the pattern of the format called name, taken alone.
L16Alone(name) ==
    \E k \in 1..Len(L16Formats) :
        L16Formats[k].Name = name /\ L16FormatMatches(L16Formats[k], l16In)

\* C25 as stated, for the extended CSV format: a text that the pattern of
\* csv_position_extended matches is returned as csv_position_extended, with
\* its flight capture.
C25_ExtendedReturned ==
    l16Out.done /\ L16Alone("csv_position_extended")
    => /\ l16Out.m.FormatName = "csv_position_extended"
       /\ "flight" \in DOMAIN l16Out.m.Captures

\* What holds: csv_position_extended is never returned; a text its pattern
\* matches is matched by csv_position first and has no flight capture.
ExtendedShadowed ==
    l16Out.done
    => /\ l16Out.m.FormatName # "csv_position_extended"
       /\ L16Alone("csv_position_extended")
          => /\ L16Alone("csv_position")
             /\ l16Out.m.FormatName = "csv_position"
             /\ "flight" \notin DOMAIN l16Out.m.Captures

\* The example of the extended format is returned as csv_position.
ExtendedExampleAsCsv ==
    /\ l16In = <<"2", "2", "1", "9", "4", "2", ",", "+", "2", "0", "9", "9", "5", ",", "2", "3", "4", "6", ",", "9", "1", "6", "0", ",", "N", " ", "5", "0", ".", "0", "5", "4", "7", ",", "E", " ", "8", ".", "2", "4", "0", "8", ",", "S", "X", "S", "6", "7", "A", " ", " ", ",", "5", ",", "7", ",", "4", ",", "9", "2", "5", "7", "6", "0", ",", "/", ",">>
    /\ L16Returned("csv_position")
    /\ l16Out.m.Captures.altitude = <<"+", "2", "0", "9", "9", "5">>
    /\ l16Out.m.Captures.track = <<"9", "1", "6", "0">>
    /\ l16Out.m.Captures.lat = <<"5", "0", ".", "0", "5", "4", "7">>
    /\ l16Out.m.Captures.lon = <<"8", ".", "2", "4", "0", "8">>

\* Each of the other five formats is returned for some text.
ReachedCsv == L16Returned("csv_position") /\ l16In = <<"2", "2", "1", "9", "4", "2", ",", "3", "5", "9", "8", "9", ",", "2", "3", "4", "6", ",", " ", "1", "1", "8", ",", "N", " ", "4", "7", ".", "9", "8", "3", " ", "E", " ", " ", "9", ".", "6", "2", "6">>
ReachedNoAlt == L16Returned("csv_position_no_alt")
ReachedPrefixed ==
    /\ L16Returned("waypoint_position_prefixed")
    /\ l16Out.m.Captures.waypoint = <<"N", "U", "P", "N", "I">>
    /\ l16Out.m.Captures.prefix_flight = <<"8", "4", "1", "6">>
ReachedWaypoint ==
    /\ L16Returned("waypoint_position")
    /\ l16Out.m.Captures.waypoint = <<"B", "E", "G", "L", "A">>
ReachedAutpos ==
    /\ L16Returned("autpos")
    /\ l16Out.m.Captures.lon = <<"0", "9", "1", "5", "2", "3", "9">>

=============================================================================
